---- MODULE Spec2Model ----
(***************************************************************************)
(* Flowscribe: the extraction / aggregation / rendering core.              *)
(*                                                                         *)
(*   scripts/flowscribe_utils.py     mermaid_safe_id, MermaidIdRegistry    *)
(*   scripts/c4-level2-generator.py  DeptracToC4Converter._load            *)
(*   scripts/c4-level3-generator.py  C4Level3Generator (catalog, edges,    *)
(*                                   layer component diagram)              *)
(*   scripts/create-master-index.py  metrics routing, layered overview     *)
(*                                                                         *)
(* Python strings are TLA+ strings; the str methods the code calls are the *)
(* operators of the first section, written character by character.  A      *)
(* Python value that may be None or of another type than str is a record   *)
(* [k |-> kind, v |-> text].                                               *)
(***************************************************************************)
EXTENDS Naturals, Sequences, FiniteSets, TLC

VARIABLES
    \* mermaid_safe_id applied to one input
    sid_in, sid_out,
    \* one MermaidIdRegistry: _used, the calls of uid since the last reset, and
    \* the _used the last reset cleared
    used, calls, dropped,
    \* DeptracToC4Converter: where _load is, what it has read, and its fields
    l2_pc, loaded, violations, layers, dependencies,
    \* C4Level3Generator: the report and the deptrac.yaml it is built from,
    \* where its constructor is, and its fields
    report, config, l3_pc, l3_i, fell_back, layer_components, component_dependencies,
    \* the renderers: which one runs, the layer asked of the generator and the
    \* diagram text of each run, the layer counts and ruleset edges given to
    \* the overview renderer and the overview text of each run
    render, layer_arg, diagrams, layers_dict, edges, overviews,
    \* what the calls of a batch on one generator gave, in turn
    results,
    \* read_all_metrics: where it is, the documents read so far and the
    \* extraction that handled each, its running totals, its stages, and the
    \* summary it returns; the legend generate_master_index writes under the
    \* table of costs
    m_pc, docs, handled, total, stages, summary, legend,
    \* normalize_mermaid_block: the block of one fence, and what the block is
    \* rewritten to
    fence_block, fixed,
    \* one CostTracker, and the number of record_call invocations on it
    tracker, invoked, returned,
    \* generate_all_levels: the levels asked for, the levels of the tasks that
    \* were started, what gather holds of each, the list returned, and where the
    \* call is
    levels_arg, tasks, gathered, processed_results, gen_pc

varsSafeId == <<sid_in, sid_out>>
varsRegistry == <<used, calls, dropped>>
varsLoad == <<l2_pc, loaded, violations, layers, dependencies>>
varsL3 ==
    <<report, config, l3_pc, l3_i, fell_back, layer_components, component_dependencies>>
varsRender == <<render, layer_arg, diagrams, layers_dict, edges, overviews, results>>
varsMetrics == <<m_pc, docs, handled, total, stages, summary, legend>>
varsSanitize == <<fence_block, fixed>>
varsTracker == <<tracker, invoked, returned>>
varsAsync == <<levels_arg, tasks, gathered, processed_results, gen_pc>>

(***************************************************************************)
(* Bounds and input domains                                                *)
(***************************************************************************)

\* longest list of levels given to generate_all_levels
MaxLevels == 3

\* longest input of mermaid_safe_id
MaxIdLen == 3
\* uid calls on one registry between two resets
MaxCalls == 4
\* entries (violations-list entries plus file messages) of one Deptrac report
MaxEntries == 2
\* messages of the report a C4Level3Generator is built from
MaxMessages == 2
\* component edges of a generator whose diagrams are rendered
MaxEdges == 2
\* runs of one renderer on the same input
MaxRuns == 2
\* calls of a batch on one generator
MaxBatch == 2
\* component edges inside the layer and out of it in a large report
MaxInternalEdges == 22
MaxExternalEdges == 12
\* metrics documents read by one read_all_metrics
MaxDocs == 2
MaxLegacyDocs == 3
\* metrics documents under one master index
MaxIndexDocs == 2
\* the lines of a block under its directive
MaxBodyLines == 2
\* the record_call invocations on one tracker
MaxTrackerCalls == 3

\* the sequences of at most n elements of S
SeqsUpTo(S, n) == UNION {[1..k -> S] : k \in 0..n}

IdAlphabet == {"a", "Z", "7", "_", "-", " "}

RECURSIVE StringsUpTo(_, _)
\* the strings of at most n characters of alphabet
StringsUpTo(alphabet, n) ==
    IF n = 0 THEN {""}
    ELSE LET shorter == StringsUpTo(alphabet, n - 1)
         IN  shorter \cup {s \o c : s \in shorter, c \in alphabet}

(***************************************************************************)
(* Python str methods                                                      *)
(***************************************************************************)

\* s[i] as a one-character string
CharAt(s, i) == SubSeq(s, i, i)

\* whether t occurs in s at position i
StartsAt(s, t, i) == i >= 1 /\ i + Len(t) - 1 <= Len(s) /\ SubSeq(s, i, i + Len(t) - 1) = t

RECURSIVE Find(_, _, _)
\* s.find(t, i-1) + 1: the first position >= i where t occurs in s, 0 when none
Find(s, t, i) ==
    IF i + Len(t) - 1 > Len(s) THEN 0
    ELSE IF StartsAt(s, t, i) THEN i
    ELSE Find(s, t, i + 1)

\* t in s
Contains(s, t) == Find(s, t, 1) # 0

RECURSIVE Split(_, _)
\* s.split(sep): the parts between the occurrences of sep, scanned left to right
Split(s, sep) ==
    LET p == Find(s, sep, 1)
    IN  IF p = 0 THEN <<s>>
        ELSE <<SubSeq(s, 1, p - 1)>> \o Split(SubSeq(s, p + Len(sep), Len(s)), sep)

\* s.split(sep, 1): at most one cut, at the first occurrence of sep
SplitOnce(s, sep) ==
    LET p == Find(s, sep, 1)
    IN  IF p = 0 THEN <<s>>
        ELSE <<SubSeq(s, 1, p - 1), SubSeq(s, p + Len(sep), Len(s))>>

\* xs[-1]
Last(xs) == xs[Len(xs)]

RECURSIVE LStripChars(_, _)
\* s.lstrip(chars)
LStripChars(s, chars) ==
    IF Len(s) > 0 /\ CharAt(s, 1) \in chars THEN LStripChars(SubSeq(s, 2, Len(s)), chars)
    ELSE s

RECURSIVE RStripChars(_, _)
\* s.rstrip(chars)
RStripChars(s, chars) ==
    IF Len(s) > 0 /\ CharAt(s, Len(s)) \in chars THEN RStripChars(SubSeq(s, 1, Len(s) - 1), chars)
    ELSE s

\* s.strip(chars)
StripChars(s, chars) == LStripChars(RStripChars(s, chars), chars)

\* the characters str.strip() removes, as far as the inputs below use them
Whitespace == {" ", "\t", "\n"}

\* s.strip()
Strip(s) == StripChars(s, Whitespace)

RECURSIVE Replace(_, _, _)
\* s.replace(old, new), old non-empty
Replace(s, old, new) ==
    LET p == Find(s, old, 1)
    IN  IF p = 0 THEN s
        ELSE SubSeq(s, 1, p - 1) \o new \o Replace(SubSeq(s, p + Len(old), Len(s)), old, new)

RECURSIVE JoinLines(_)
\* "\n".join(lines)
JoinLines(lines) ==
    IF Len(lines) = 0 THEN ""
    ELSE IF Len(lines) = 1 THEN lines[1]
    ELSE lines[1] \o "\n" \o JoinLines(Tail(lines))

\* Python values: None, or a str
PyNone == [k |-> "none", v |-> ""]
PyStr(s) == [k |-> "str", v |-> s]

\* x or '' for x None or a str
OrEmpty(x) == IF x.k = "none" THEN "" ELSE x.v

\* str(x) for x None or a str
StrOf(x) == IF x.k = "none" THEN "None" ELSE x.v

\* bool(x) for x None or a str
Truthy(x) == x.k # "none" /\ x.v # ""

(***************************************************************************)
(* flowscribe_utils.py: mermaid_safe_id                                    *)
(***************************************************************************)

Digits == {"0", "1", "2", "3", "4", "5", "6", "7", "8", "9"}

Letters ==
    {"a", "b", "c", "d", "e", "f", "g", "h", "i", "j", "k", "l", "m",
     "n", "o", "p", "q", "r", "s", "t", "u", "v", "w", "x", "y", "z",
     "A", "B", "C", "D", "E", "F", "G", "H", "I", "J", "K", "L", "M",
     "N", "O", "P", "Q", "R", "S", "T", "U", "V", "W", "X", "Y", "Z"}

\* the class [A-Za-z0-9_]
SafeChars == Letters \cup Digits \cup {"_"}

RECURSIVE ReSubUnsafe(_)
\* re.sub(r'[^A-Za-z0-9_]', '_', s)
ReSubUnsafe(s) ==
    IF Len(s) = 0 THEN ""
    ELSE (IF CharAt(s, 1) \in SafeChars THEN CharAt(s, 1) ELSE "_")
            \o ReSubUnsafe(SubSeq(s, 2, Len(s)))

\* A plausible slip: the "n_" prefix is added for an empty result only.
mermaid_safe_id_EmptyOnly(name) ==
    LET base == ReSubUnsafe(OrEmpty(name))
    IN  IF base = "" THEN "n_" \o base ELSE base

mermaid_safe_id(name) ==
    LET base == ReSubUnsafe(OrEmpty(name))
    IN  IF base = "" \/ CharAt(base, 1) \in Digits THEN "n_" \o base ELSE base

(***************************************************************************)
(* flowscribe_utils.py: MermaidIdRegistry                                  *)
(***************************************************************************)

\* hashlib.md5(s.encode('utf-8')).hexdigest()[:6], tabulated for the names
\* the registry is called with below (the digests are MD5's own)
Md5Hex6(s) ==
    CASE s = "None" -> "6adf97"
      [] s = "" -> "d41d8c"
      [] s = "a___b" -> "73f3f0"
      [] s = "a.#,b" -> "e3ed17"
      [] s = "a^%#b" -> "e3ed17"
      [] s = "1a" -> "efaa15"
      [] s = "a b" -> "0cc9cd"
      [] s = "Component" -> "2cb05e"

\* the id uid(name) returns on a registry whose _used is u
UidOf(u, name) ==
    LET sid == mermaid_safe_id(name)
    IN  IF sid \in u THEN sid \o "_" \o Md5Hex6(StrOf(name)) ELSE sid

\* the names uid is called with: None, '', a name that is its own sanitized
\* id, two names that sanitize to it, and a name that starts with a digit
RegistryNames ==
    {PyNone, PyStr(""), PyStr("a___b"), PyStr("a.#,b"), PyStr("a^%#b"), PyStr("1a")}

\* the inputs of mermaid_safe_id: None and every string up to MaxIdLen
SafeIdInputs == {PyNone} \cup {PyStr(s) : s \in StringsUpTo(IdAlphabet, MaxIdLen)}

\* uid(name): the returned id is added to _used, also when it was in it already
Uid(name) ==
    /\ Len(calls) < MaxCalls
    /\ LET sid == UidOf(used, name)
       IN  /\ used' = used \cup {sid}
           /\ calls' = Append(calls, [name |-> name, id |-> sid])
           /\ UNCHANGED dropped

\* A plausible slip: reset() forgets the calls but not the ids.
Reset_KeepsUsed ==
    /\ calls # <<>>
    /\ used' = used
    /\ calls' = <<>>
    /\ dropped' = used

\* reset(): _used.clear(); the ids handed out before no longer count
Reset ==
    /\ calls # <<>>
    /\ used' = {}
    /\ calls' = <<>>
    /\ dropped' = used

RegistryInit == used = {} /\ calls = <<>> /\ dropped = {}

(***************************************************************************)
(* c4-level2-generator.py: DeptracToC4Converter._load                      *)
(***************************************************************************)

\* A plausible slip: only None is coalesced, an empty name is kept.
OrUnknownNoneOnly(x) == IF x.k = "none" THEN "Unknown" ELSE x.v

\* x or "Unknown"
OrUnknown(x) == IF Truthy(x) THEN x.v ELSE "Unknown"

\* A plausible slip: the pair is cut at every " on " and the first two parts
\* are kept, without the strip.
LayersFromMessageNoStrip(m) ==
    LET msg == OrEmpty(m.message)
        tail == RStripChars(Last(Split(msg, "(")), {")"})
        parts == Split(tail, " on ")
    IN  IF Contains(msg, "(") /\ Contains(tail, " on ")
        THEN <<PyStr(parts[1]), PyStr(parts[2])>>
        ELSE <<m.dep_from, m.dep_to>>

\* The layers of a files-shape message before the "Unknown" default: the
\* explicit dependency layers, or, when one of them is missing, the pair
\* parsed from the message text.
LayersFromMessage(m) ==
    IF Truthy(m.dep_from) /\ Truthy(m.dep_to) THEN <<m.dep_from, m.dep_to>>
    ELSE LET msg == OrEmpty(m.message)
         IN  IF Contains(msg, "(") /\ Contains(msg, " on ")
             THEN LET tail == RStripChars(Last(Split(msg, "(")), {")"})
                  IN  IF Contains(tail, " on ")
                      THEN LET parts == SplitOnce(tail, " on ")
                           IN  <<PyStr(Strip(parts[1])), PyStr(Strip(parts[2]))>>
                      ELSE <<m.dep_from, m.dep_to>>
             ELSE <<m.dep_from, m.dep_to>>

\* self.layers[layer].add(member)
AddToLayer(ls, layer, member) ==
    IF layer \in DOMAIN ls THEN [ls EXCEPT ![layer] = @ \cup {member}]
    ELSE ls @@ (layer :> {member})

\* A counter that only notes that a key was seen.
IncrementOnce(counter, key) ==
    IF key \in DOMAIN counter THEN counter ELSE counter @@ (key :> 1)

\* counter[key] += 1
Increment(counter, key) ==
    IF key \in DOMAIN counter THEN [counter EXCEPT ![key] = @ + 1]
    ELSE counter @@ (key :> 1)

EmptyMap == <<>>

\* one entry of the "violations" list
LoadViolationEntry(v) ==
    /\ l2_pc = "violations"
    /\ Len(loaded) < MaxEntries
    /\ LET f_layer == OrUnknown(v.depender_layer)
           t_layer == OrUnknown(v.dependent_layer)
           f_file == OrEmpty(v.depender_file)
       IN  /\ violations' = Append(violations,
                  [rule |-> v.rule, from_layer |-> f_layer, to_layer |-> t_layer,
                   file |-> f_file, line |-> v.line])
           /\ layers' = AddToLayer(
                  AddToLayer(layers, f_layer, IF f_file # "" THEN f_file ELSE f_layer),
                  t_layer,
                  IF Truthy(v.dependent_file) THEN v.dependent_file.v ELSE t_layer)
           /\ dependencies' = Increment(dependencies, <<f_layer, t_layer>>)
    /\ loaded' = Append(loaded, [shape |-> "violations", v |-> v])
    /\ UNCHANGED l2_pc

\* the "violations" list is exhausted (or the report has none)
EndViolations ==
    /\ l2_pc = "violations"
    /\ l2_pc' = "files"
    /\ UNCHANGED <<loaded, violations, layers, dependencies>>

\* the files of the report read so far, in order
FilesLoaded == {loaded[i].file : i \in {j \in 1..Len(loaded) : loaded[j].shape = "files"}}

\* "files" is a mapping: the messages of one file follow one another
NextFileOk(file) ==
    \/ file \notin FilesLoaded
    \/ Len(loaded) > 0 /\ Last(loaded).shape = "files" /\ Last(loaded).file = file

\* one message of one file of the "files" mapping
LoadFileMessage(file, m) ==
    /\ l2_pc = "files"
    /\ Len(loaded) < MaxEntries
    /\ NextFileOk(file)
    /\ LET pair == LayersFromMessage(m)
           f_layer == OrUnknown(pair[1])
           t_layer == OrUnknown(pair[2])
       IN  /\ violations' = Append(violations,
                  [rule |-> m.rule, from_layer |-> f_layer, to_layer |-> t_layer,
                   file |-> file, line |-> m.line])
           /\ layers' = AddToLayer(AddToLayer(layers, f_layer, file), t_layer, file)
           /\ dependencies' = Increment(dependencies, <<f_layer, t_layer>>)
    /\ loaded' = Append(loaded, [shape |-> "files", file |-> file, m |-> m])
    /\ UNCHANGED l2_pc

\* the end of _load: layers without members are removed
FinishLoad ==
    /\ l2_pc = "files"
    /\ l2_pc' = "done"
    /\ layers' = [k \in {x \in DOMAIN layers : layers[x] # {}} |-> layers[k]]
    /\ UNCHANGED <<loaded, violations, dependencies>>

LoadInit ==
    /\ l2_pc = "violations"
    /\ loaded = <<>>
    /\ violations = <<>>
    /\ layers = EmptyMap
    /\ dependencies = EmptyMap

\* a converter that is not used
LoadIdle ==
    /\ l2_pc = "idle"
    /\ loaded = <<>>
    /\ violations = <<>>
    /\ layers = EmptyMap
    /\ dependencies = EmptyMap

\* Message texts of a report.  The first is Deptrac's own wording; the others
\* vary the parenthesized suffix: padded, with an empty side, with " on "
\* twice, with more parentheses, unclosed, followed by text, or absent.
MessageTexts ==
    {"Foo must not depend on Bar (Presentation on Domain)",
     "Foo must not depend on App\\Bar ( Presentation \t on  Domain )",
     "Foo must not depend on Bar ( on Domain)",
     "Foo must not depend on Bar (Presentation on )",
     "Foo must not depend on Bar (  on Domain)",
     "Foo must not depend on Bar (Presentation on Domain on Core)",
     "Foo (final) must not depend on Bar ((Presentation on Domain))",
     "Foo must not depend on Bar (Presentation on Domain).",
     "Foo must not depend on Bar (Presentation on Domain",
     "Foo must not depend on Bar",
     "Presentation on Domain (see ruleset)",
     "Foo uses Bar (Domain)"}

\* a files-shape message: its text and its explicit dependency layers
FileMessage(text, dep_from, dep_to) ==
    [message |-> text, dep_from |-> dep_from, dep_to |-> dep_to,
     rule |-> "unknown", line |-> 10]

\* The messages of the reports: every text without explicit layers (and a
\* message without text), and texts with both explicit layers, with one, and
\* with an empty one.
FileMessages ==
    {FileMessage(PyStr(t), PyNone, PyNone) : t \in MessageTexts}
    \cup {FileMessage(PyNone, PyNone, PyNone)}
    \cup {FileMessage(PyStr(t), f, d) :
            t \in {"Foo must not depend on Bar (Presentation on Domain)",
                   "Foo must not depend on Bar"},
            f \in {PyStr("App")}, d \in {PyStr("Core"), PyNone}}
    \cup {FileMessage(PyStr("Foo must not depend on Bar"), PyStr(""), PyStr("Core"))}

ReportFiles == {"Foo.php", "src/Bar.php"}

\* the entries of a "violations" list: layers present, empty or missing
ViolationEntries ==
    {[rule |-> "unknown", depender_layer |-> f, dependent_layer |-> d,
      depender_file |-> PyStr("Foo.php"), dependent_file |-> PyNone, line |-> 10] :
        f \in {PyStr("App"), PyStr(""), PyNone}, d \in {PyStr("Core"), PyNone}}

(***************************************************************************)
(* c4-level3-generator.py: C4Level3Generator, building the catalog         *)
(***************************************************************************)

\* A dict keeps its keys in insertion order: [keys |-> the keys in that
\* order, val |-> the value of each key].
EmptyDict == [keys |-> <<>>, val |-> <<>>]

\* k in d
DictHas(d, k) == k \in DOMAIN d.val

\* d[k] = v
DictPut(d, k, v) ==
    IF DictHas(d, k) THEN [d EXCEPT !.val = [d.val EXCEPT ![k] = v]]
    ELSE [keys |-> Append(d.keys, k), val |-> d.val @@ (k :> v)]

\* self.layer_components[layer][component].append(occurrence), on the
\* defaultdict of defaultdicts of lists
CatalogAppend(cat, layer, component, occurrence) ==
    LET comps == IF DictHas(cat, layer) THEN cat.val[layer] ELSE EmptyDict
        occs == IF DictHas(comps, component) THEN comps.val[component] ELSE <<>>
    IN  DictPut(cat, layer, DictPut(comps, component, Append(occs, occurrence)))

\* a line number of a message, and None in its place
NoLine == [k |-> "none", n |-> 0]
LineNo(n) == [k |-> "int", n |-> n]

\* _extract_component_name
extract_component_name(file_path) == Replace(Last(Split(file_path, "/")), ".php", "")

\* _simplify_class_name
simplify_class_name(class_name) ==
    IF Contains(class_name, "\\") THEN Last(Split(class_name, "\\")) ELSE class_name

\* msg.split('(')[-1].strip(')')
LayerPart(msg) == StripChars(Last(Split(msg, "(")), {")"})

\* source_layer, target_layer = layer_part.split(' on ') raises ValueError
\* unless the split gives exactly two parts
UnpackFails(layer_part) == Len(Split(layer_part, " on ")) # 2

\* the edge appended for a message that holds 'depend on' and whose layer
\* part unpacks
EdgeOf(component_name, msg) ==
    LET pair == Split(LayerPart(msg), " on ")
        target_class == Strip(Split(Split(msg, "depend on")[2], "(")[1])
    IN  [from |-> component_name,
         to |-> simplify_class_name(target_class),
         from_layer |-> Strip(pair[1]),
         to_layer |-> Strip(pair[2])]

UpperAlpha == "ABCDEFGHIJKLMNOPQRSTUVWXYZ"
LowerAlpha == "abcdefghijklmnopqrstuvwxyz"

RECURSIVE Lower(_)
\* s.lower()
Lower(s) ==
    IF Len(s) = 0 THEN ""
    ELSE LET c == CharAt(s, 1)
             p == Find(UpperAlpha, c, 1)
         IN  (IF p = 0 THEN c ELSE CharAt(LowerAlpha, p)) \o Lower(SubSeq(s, 2, Len(s)))

RECURSIVE WildMatch(_, _)
\* whether the name s matches the pattern segment p, where "*" stands for
\* any run of characters
WildMatch(p, s) ==
    IF Len(p) = 0 THEN Len(s) = 0
    ELSE IF CharAt(p, 1) = "*"
         THEN WildMatch(SubSeq(p, 2, Len(p)), s)
              \/ (Len(s) > 0 /\ WildMatch(p, SubSeq(s, 2, Len(s))))
         ELSE Len(s) > 0 /\ CharAt(s, 1) = CharAt(p, 1)
              /\ WildMatch(SubSeq(p, 2, Len(p)), SubSeq(s, 2, Len(s)))

RECURSIVE GlobSegs(_, _, _)
\* whether the path segments ss match the pattern segments ps; "**" stands
\* for any number of directories, and the last segment of ss is a directory
\* only if last_is_dir
GlobSegs(ps, ss, last_is_dir) ==
    IF Len(ps) = 0 THEN Len(ss) = 0
    ELSE IF Head(ps) = "**"
         THEN GlobSegs(Tail(ps), ss, last_is_dir)
              \/ (Len(ss) > 0 /\ (Len(ss) > 1 \/ last_is_dir)
                  /\ GlobSegs(ps, Tail(ss), last_is_dir))
         ELSE Len(ss) > 0 /\ WildMatch(Head(ps), Head(ss))
              /\ GlobSegs(Tail(ps), Tail(ss), last_is_dir)

\* whether self.project_dir.glob(pattern) yields the entry
GlobYields(pattern, entry) ==
    GlobSegs(Split(pattern, "/"), Split(entry.path, "/"), ~entry.is_file)

\* the project directory and what is in it, in the order the file system
\* lists it
ProjectDir == "/srv/shop"
Listing ==
    <<[path |-> "src/Domain/Order.php", is_file |-> TRUE],
      [path |-> "src/Domain/Model/Latest.php", is_file |-> TRUE],
      [path |-> "src/Domain/skel.php", is_file |-> FALSE],
      [path |-> "src/vendor/Lib.php", is_file |-> TRUE],
      [path |-> "TestHelper.php", is_file |-> TRUE],
      [path |-> "index.php", is_file |-> TRUE]>>

\* str(php_file)
AbsPath(entry) == ProjectDir \o "/" \o entry.path

\* whether a collector adds the entry to its layer
CollectorKeeps(collector, entry) ==
    IF collector.type = "directory"
    THEN /\ GlobYields(Replace(collector.value, "/.*", "/**/*.php"), entry)
         /\ entry.is_file
         /\ ~Contains(AbsPath(entry), "vendor")
         /\ ~Contains(Lower(AbsPath(entry)), "test")
    ELSE IF collector.type = "glob"
    THEN /\ GlobYields(collector.value, entry)
         /\ entry.is_file
         /\ ~Contains(AbsPath(entry), "vendor")
    ELSE FALSE

RECURSIVE ScanCollector(_, _, _, _)
\* one collector of a layer: the entries from the k-th on
ScanCollector(cat, layer_name, collector, k) ==
    IF k > Len(Listing) THEN cat
    ELSE ScanCollector(
            IF CollectorKeeps(collector, Listing[k])
            THEN CatalogAppend(cat, layer_name,
                               extract_component_name(AbsPath(Listing[k])),
                               [file |-> Listing[k].path, message |-> PyNone, line |-> NoLine])
            ELSE cat,
            layer_name, collector, k + 1)

RECURSIVE ScanCollectors(_, _, _, _)
\* the collectors of a layer from the j-th on
ScanCollectors(cat, layer_name, collectors, j) ==
    IF j > Len(collectors) THEN cat
    ELSE ScanCollectors(ScanCollector(cat, layer_name, collectors[j], 1),
                        layer_name, collectors, j + 1)

\* len(details), the violation_count generate_component_list reports
ViolationCount(cat, layer, component) == Len(cat.val[layer].val[component])

\* _parse_components_from_filesystem up to the loop over the layers
L3Start ==
    /\ l3_pc = "start"
    /\ IF config.kind = "ok"
       THEN l3_pc' = "scan" /\ fell_back' = FALSE
       ELSE l3_pc' = "fallback" /\ fell_back' = TRUE
    /\ l3_i' = 1
    /\ UNCHANGED <<report, config, layer_components, component_dependencies>>

\* one layer of deptrac.yaml: layer_def['name'] raises KeyError when the
\* layer has no name
ScanLayer ==
    /\ l3_pc = "scan"
    /\ l3_i <= Len(config.layers)
    /\ LET layer_def == config.layers[l3_i]
       IN  IF layer_def.name.k = "none"
           THEN /\ l3_pc' = "fallback"
                /\ fell_back' = TRUE
                /\ l3_i' = 1
                /\ UNCHANGED layer_components
           ELSE /\ layer_components' =
                       ScanCollectors(layer_components, layer_def.name.v, layer_def.collectors, 1)
                /\ l3_i' = l3_i + 1
                /\ UNCHANGED <<l3_pc, fell_back>>
    /\ UNCHANGED <<report, config, component_dependencies>>

\* the layers are scanned: _parse_violations_for_dependencies begins
ScanDone ==
    /\ l3_pc = "scan"
    /\ l3_i > Len(config.layers)
    /\ l3_pc' = "harvest"
    /\ l3_i' = 1
    /\ UNCHANGED <<report, config, fell_back, layer_components, component_dependencies>>

\* one message in _parse_violations_for_dependencies; an exception is caught
\* by _parse_components_from_filesystem, which falls back
HarvestMessage ==
    /\ l3_pc = "harvest"
    /\ report.has_files
    /\ l3_i <= Len(report.entries)
    /\ LET e == report.entries[l3_i]
           msg == e.message.v
       IN  IF e.message.k = "none"
           THEN /\ l3_pc' = "fallback" /\ fell_back' = TRUE /\ l3_i' = 1
                /\ UNCHANGED component_dependencies
           ELSE IF Contains(msg, "depend on") /\ Contains(msg, "(")
                   /\ Contains(LayerPart(msg), " on ")
           THEN IF UnpackFails(LayerPart(msg))
                THEN /\ l3_pc' = "fallback" /\ fell_back' = TRUE /\ l3_i' = 1
                     /\ UNCHANGED component_dependencies
                ELSE /\ component_dependencies' =
                            Append(component_dependencies,
                                   EdgeOf(extract_component_name(e.file), msg))
                     /\ l3_i' = l3_i + 1
                     /\ UNCHANGED <<l3_pc, fell_back>>
           ELSE /\ l3_i' = l3_i + 1
                /\ UNCHANGED <<l3_pc, fell_back, component_dependencies>>
    /\ UNCHANGED <<report, config, layer_components>>

\* _parse_violations_for_dependencies returns, and so does the builder
HarvestDone ==
    /\ l3_pc = "harvest"
    /\ ~report.has_files \/ l3_i > Len(report.entries)
    /\ l3_pc' = "done"
    /\ UNCHANGED <<report, config, l3_i, fell_back, layer_components, component_dependencies>>

\* one message in _parse_components; nothing catches an exception here
FallbackMessage ==
    /\ l3_pc = "fallback"
    /\ report.has_files
    /\ l3_i <= Len(report.entries)
    /\ LET e == report.entries[l3_i]
           msg == e.message.v
           component_name == extract_component_name(e.file)
       IN  IF e.message.k = "none"
           THEN /\ l3_pc' = "raised"
                /\ UNCHANGED <<l3_i, layer_components, component_dependencies>>
           ELSE IF Contains(msg, " on ") /\ Contains(msg, "(")
                   /\ Contains(LayerPart(msg), " on ")
           THEN IF UnpackFails(LayerPart(msg))
                THEN /\ l3_pc' = "raised"
                     /\ UNCHANGED <<l3_i, layer_components, component_dependencies>>
                ELSE /\ layer_components' =
                            CatalogAppend(layer_components,
                                          Strip(Split(LayerPart(msg), " on ")[1]),
                                          component_name,
                                          [file |-> e.file, message |-> e.message, line |-> e.line])
                     /\ component_dependencies' =
                            IF Contains(msg, "depend on")
                            THEN Append(component_dependencies, EdgeOf(component_name, msg))
                            ELSE component_dependencies
                     /\ l3_i' = l3_i + 1
                     /\ UNCHANGED l3_pc
           ELSE /\ l3_i' = l3_i + 1
                /\ UNCHANGED <<l3_pc, layer_components, component_dependencies>>
    /\ UNCHANGED <<report, config, fell_back>>

\* _parse_components returns, and so does the builder
FallbackDone ==
    /\ l3_pc = "fallback"
    /\ ~report.has_files \/ l3_i > Len(report.entries)
    /\ l3_pc' = "done"
    /\ UNCHANGED <<report, config, l3_i, fell_back, layer_components, component_dependencies>>

\* Message texts of the reports a generator is built from: Deptrac's wording
\* with a namespaced target, a dependency inside one layer, a layer name that
\* holds " on ", a text without "depend on", and a text without a layer pair.
L3Texts ==
    {"App\\Foo must not depend on App\\Bar (Presentation on Domain)",
     "Foo must not depend on Baz (Domain on Domain)",
     "Foo must not depend on Bar (Add on Loader on Domain)",
     "Foo uses Bar (Presentation on Domain)",
     "Foo must not depend on Bar"}

L3Files == {"src/Domain/Order.php", "lib/class.phpmailer.php"}

\* the messages of the reports, one of them with a null text
L3Entries ==
    {[file |-> f, message |-> PyStr(t), line |-> LineNo(10)] : f \in L3Files, t \in L3Texts}
    \cup {[file |-> f, message |-> PyNone, line |-> LineNo(10)] : f \in L3Files}

\* report['files'] is a dict: the messages of one file follow each other
FilesContiguous(es) ==
    \A i, j, k \in 1..Len(es) : (i < j /\ j < k /\ es[i].file = es[k].file) => es[j].file = es[i].file

L3Reports ==
    {[has_files |-> FALSE, entries |-> <<>>]}
    \cup {[has_files |-> TRUE, entries |-> es] :
            es \in {x \in SeqsUpTo(L3Entries, MaxMessages) : FilesContiguous(x)}}

LayerDomain ==
    [name |-> PyStr("Domain"), collectors |-> <<[type |-> "directory", value |-> "src/Domain/.*"]>>]
LayerWeb ==
    [name |-> PyStr("Web"), collectors |-> <<[type |-> "glob", value |-> "*.php"]>>]
LayerSource ==
    [name |-> PyStr("Source"), collectors |-> <<[type |-> "directory", value |-> "src/.*"]>>]
LayerNameless ==
    [name |-> PyNone, collectors |-> <<[type |-> "directory", value |-> "src/.*"]>>]

\* deptrac.yaml: missing, not a mapping that can be read, or a list of layers
L3Configs ==
    {[kind |-> "missing", layers |-> <<>>], [kind |-> "invalid", layers |-> <<>>]}
    \cup {[kind |-> "ok", layers |-> ls] :
            ls \in {<<>>, <<LayerDomain>>, <<LayerWeb>>, <<LayerDomain, LayerWeb>>,
                    <<LayerDomain, LayerSource>>, <<LayerNameless>>,
                    <<LayerDomain, LayerNameless>>}}

\* __init__ before it calls _parse_components_from_filesystem
L3Init ==
    /\ report \in L3Reports
    /\ config \in L3Configs
    /\ l3_pc = "start"
    /\ l3_i = 1
    /\ fell_back = FALSE
    /\ layer_components = EmptyDict
    /\ component_dependencies = <<>>

\* a generator that is not used
L3Idle ==
    /\ report = [has_files |-> FALSE, entries |-> <<>>]
    /\ config = [kind |-> "missing", layers |-> <<>>]
    /\ l3_pc = "idle"
    /\ l3_i = 1
    /\ fell_back = FALSE
    /\ layer_components = EmptyDict
    /\ component_dependencies = <<>>

(***************************************************************************)
(* c4-level3-generator.py: the layer component diagram                     *)
(***************************************************************************)

\* The code fence of a Mermaid block.  A TLA+ string cannot hold the grave
\* accent, so each of the three is written as an apostrophe; no other text
\* of the renderers holds three apostrophes in a row.
Fence == "'''"

\* internal_deps[:20] and external_deps[:10]
InternalCap == 20
ExternalCap == 10

DecimalDigits == "0123456789"

RECURSIVE IntToStr(_)
\* str(n) for n >= 0
IntToStr(n) ==
    IF n < 10 THEN CharAt(DecimalDigits, n + 1)
    ELSE IntToStr(n \div 10) \o CharAt(DecimalDigits, (n % 10) + 1)

\* xs[:n]
Take(xs, n) == SubSeq(xs, 1, IF Len(xs) < n THEN Len(xs) ELSE n)

\* the orders in which the elements of a set can be iterated
Orders(S) == {f \in [1..Cardinality(S) -> S] : \A i, j \in 1..Cardinality(S) : i # j => f[i] # f[j]}

\* the category _categorize_components gives a component of a layer
CategoryOf(layer_name, comp_name) ==
    IF layer_name = "Presentation"
    THEN IF Contains(comp_name, "Handler") THEN "Request Handlers"
         ELSE IF Contains(comp_name, "Controller") THEN "Controllers"
         ELSE IF Contains(comp_name, "Form") THEN "Forms"
         ELSE "Other UI Components"
    ELSE IF layer_name = "Infrastructure"
    THEN IF Contains(comp_name, "DOI") \/ Contains(comp_name, "Doi") THEN "DOI Services"
         ELSE IF Contains(comp_name, "ORCID") \/ Contains(comp_name, "Orcid")
              THEN "ORCID Integration"
         ELSE IF Contains(comp_name, "Mail") \/ Contains(comp_name, "Email")
                 \/ Contains(comp_name, "Notif")
              THEN "Notification Services"
         ELSE IF Contains(comp_name, "Payment") THEN "Payment Services"
         ELSE IF Contains(comp_name, "File") THEN "File Management"
         ELSE "Other Infrastructure"
    ELSE IF layer_name = "Persistence"
    THEN IF Contains(comp_name, "DAO") THEN "Data Access Objects"
         ELSE "Repository Components"
    ELSE IF layer_name = "Domain" THEN "Domain Entities"
    ELSE "Components"

RECURSIVE CategorizeFrom(_, _, _, _)
\* categories[...].append(comp_name) for the component names from the k-th on
CategorizeFrom(categories, layer_name, names, k) ==
    IF k > Len(names) THEN categories
    ELSE LET c == CategoryOf(layer_name, names[k])
             sofar == IF DictHas(categories, c) THEN categories.val[c] ELSE <<>>
         IN  CategorizeFrom(DictPut(categories, c, Append(sofar, names[k])),
                            layer_name, names, k + 1)

\* _categorize_components
categorize_components(layer_name, components) ==
    IF layer_name \in {"Presentation", "Infrastructure", "Persistence"}
    THEN CategorizeFrom(EmptyDict, layer_name, components.keys, 1)
    ELSE DictPut(EmptyDict, CategoryOf(layer_name, ""), components.keys)

\* comp_name.replace(' ', '_').replace('-', '_')
NodeId(name) == Replace(Replace(name, " ", "_"), "-", "_")

\* ext_layer.replace(' ', '_')
ExtId(layer) == Replace(layer, " ", "_")

\* the node of each component of a category
NodeLines(comps) ==
    [i \in 1..Len(comps) |-> "            " \o NodeId(comps[i]) \o "[" \o comps[i] \o "]"]

RECURSIVE CategoryBlocks(_, _)
\* the subgraph of each category that has components, from the k-th on
CategoryBlocks(categorized, k) ==
    IF k > Len(categorized.keys) THEN <<>>
    ELSE LET category == categorized.keys[k]
             comps == categorized.val[category]
         IN  (IF comps # <<>>
              THEN <<"        subgraph \"" \o category \o "\"">>
                   \o NodeLines(comps) \o <<"        end">>
              ELSE <<>>)
             \o CategoryBlocks(categorized, k + 1)

\* the dependencies inside the layer, and those that leave it
IsInternal(dep, layer_name) == dep.from_layer = layer_name /\ dep.to_layer = layer_name
IsExternal(dep, layer_name) == dep.from_layer = layer_name /\ dep.to_layer # layer_name

\* the set external_layers
ExternalLayers(deps, layer_name) ==
    {deps[i].to_layer : i \in {j \in 1..Len(deps) : IsExternal(deps[j], layer_name)}}

\* internal_deps: the edge of each dependency inside the layer
InternalLines(deps, layer_name) ==
    LET inner == SelectSeq(deps, LAMBDA d : IsInternal(d, layer_name))
    IN  [i \in 1..Len(inner) |-> "    " \o NodeId(inner[i].from) \o " --> " \o NodeId(inner[i].to)]

\* external_deps: the edge of each dependency that leaves the layer
ExternalLines(deps, layer_name) ==
    LET outer == SelectSeq(deps, LAMBDA d : IsExternal(d, layer_name))
    IN  [i \in 1..Len(outer) |->
            "    " \o NodeId(outer[i].from) \o " -.-> " \o ExtId(outer[i].to_layer)]

\* the node of each external layer, in the order the set is iterated
ExtNodeLines(ext_order) ==
    [i \in 1..Len(ext_order) |-> "    " \o ExtId(ext_order[i]) \o "[" \o ext_order[i] \o " Layer]"]

\* A capped edge list that is cut without a word.
CappedLinesSilent(edge_lines, cap, kind) == Take(edge_lines, cap)

\* the lines of a capped edge list and its summary line
CappedLines(edge_lines, cap, kind) ==
    Take(edge_lines, cap)
    \o (IF Len(edge_lines) > cap
        THEN <<"    %% ... and " \o IntToStr(Len(edge_lines) - cap) \o " more " \o kind
               \o " dependencies">>
        ELSE <<>>)

\* generate_layer_component_diagram; ext_order is the order in which the set
\* external_layers is iterated
generate_layer_component_diagram(cat, deps, layer_name, ext_order) ==
    IF ~DictHas(cat, layer_name) THEN "*Layer '" \o layer_name \o "' not found in analysis*"
    ELSE IF cat.val[layer_name].keys = <<>>
    THEN "*No components found in " \o layer_name \o " layer*"
    ELSE LET internal_deps == InternalLines(deps, layer_name)
             external_deps == ExternalLines(deps, layer_name)
         IN  JoinLines(
                <<Fence \o "mermaid", "graph TB", "    subgraph \"" \o layer_name \o " Layer\"">>
                \o CategoryBlocks(categorize_components(layer_name, cat.val[layer_name]), 1)
                \o <<"    end", "", "    %% Component Dependencies">>
                \o CappedLines(internal_deps, InternalCap, "internal")
                \o <<"", "    %% External Layer Dependencies">>
                \o ExtNodeLines(ext_order)
                \o CappedLines(external_deps, ExternalCap, "external")
                \o <<Fence>>)

\* one run of the diagram renderer; the iteration order of the set of
\* external layers is fixed by the string hashing of the run
RenderDiagram ==
    /\ render = "diagram"
    /\ Len(diagrams) < MaxRuns
    /\ \E ext_order \in Orders(ExternalLayers(component_dependencies, layer_arg)) :
          diagrams' = Append(diagrams,
                             generate_layer_component_diagram(layer_components,
                                 component_dependencies, layer_arg, ext_order))
    /\ UNCHANGED <<render, layer_arg, layers_dict, edges, overviews, results>>
    /\ UNCHANGED <<report, config, l3_pc, l3_i, fell_back, layer_components,
                   component_dependencies>>

(***************************************************************************)
(* create-master-index.py: the layered overview                            *)
(***************************************************************************)

\* the characters of the layer names, in code point order
CodePoints == " -0123456789ABCDEFGHIJKLMNOPQRSTUVWXYZ_abcdefghijklmnopqrstuvwxyz"

RECURSIVE StrLess(_, _)
\* a < b on str
StrLess(a, b) ==
    IF Len(b) = 0 THEN FALSE
    ELSE IF Len(a) = 0 THEN TRUE
    ELSE LET x == Find(CodePoints, CharAt(a, 1), 1)
             y == Find(CodePoints, CharAt(b, 1), 1)
         IN  x < y \/ (x = y /\ StrLess(SubSeq(a, 2, Len(a)), SubSeq(b, 2, Len(b))))

\* whether the sort key (-count, name.lower()) of a is less than that of b
KeyLess(d, a, b) ==
    d.val[a] > d.val[b] \/ (d.val[a] = d.val[b] /\ StrLess(Lower(a), Lower(b)))

RECURSIVE InsertByKey(_, _, _)
\* name put into sorted behind every name whose key is not greater
InsertByKey(d, sorted, name) ==
    IF sorted = <<>> THEN <<name>>
    ELSE IF KeyLess(d, name, Head(sorted)) THEN <<name>> \o sorted
    ELSE <<Head(sorted)>> \o InsertByKey(d, Tail(sorted), name)

RECURSIVE SortedNames(_, _)
\* the names of sorted(layers_dict.items(), key=...): a stable sort of the
\* first k keys
SortedNames(d, k) ==
    IF k = 0 THEN <<>> ELSE InsertByKey(d, SortedNames(d, k - 1), d.keys[k])

\* _slug
slug(s) == ReSubUnsafe(s)

palette ==
    <<"#e1f5fe", "#fff3e0", "#f3e5f5", "#e8f5e9", "#fce4ec", "#f1f8e9", "#ede7f6", "#e0f2f1">>

RECURSIVE LayerBlocks(_, _, _)
\* the five lines of each layer, from the k-th of names on
LayerBlocks(d, names, k) ==
    IF k > Len(names) THEN <<>>
    ELSE LET layer == names[k]
             sid == slug(layer)
             color == palette[((k - 1) % Len(palette)) + 1]
         IN  <<"    subgraph " \o sid \o "_grp[\"" \o layer \o " Layer\"]",
               "        " \o sid \o "[\"" \o layer \o "<br/>(" \o IntToStr(d.val[layer])
                   \o " components)\"]",
               "    end",
               "    style " \o sid \o " fill:" \o color \o ",stroke:#b0bec5,stroke-width:1px",
               "    classDef small fill:" \o color \o ",stroke:#b0bec5,color:#263238;">>
             \o LayerBlocks(d, names, k + 1)

\* lower_to_actual.get(key): the last of names whose lower case is key, "" for None
LowerToActual(names, key) ==
    LET hits == {i \in 1..Len(names) : Lower(names[i]) = key}
    IN  IF hits = {} THEN ""
        ELSE names[CHOOSE i \in hits : \A j \in hits : j <= i]

RECURSIVE RulesetEdgeLines(_, _, _)
\* the line of each edge of the ruleset between two different known layers
RulesetEdgeLines(names, es, k) ==
    IF k > Len(es) THEN <<>>
    ELSE LET s == LowerToActual(names, Lower(es[k][1]))
             t == LowerToActual(names, Lower(es[k][2]))
         IN  (IF s # "" /\ t # "" /\ s # t
              THEN <<"    " \o slug(s) \o " --> " \o slug(t)>>
              ELSE <<>>)
             \o RulesetEdgeLines(names, es, k + 1)

\* without edges: each layer points to the next one
ChainLines(names) ==
    [i \in 1..(Len(names) - 1) |-> "    " \o slug(names[i]) \o " --> " \o slug(names[i + 1])]

\* render_rich_layered_mermaid
render_rich_layered_mermaid(d, es) ==
    IF d.keys = <<>>
    THEN Fence \o "mermaid\nflowchart TB\n    NoLayers[\"No layer information available\"]\n"
         \o Fence
    ELSE LET names == SortedNames(d, Len(d.keys))
         IN  JoinLines(
                <<Fence \o "mermaid", "flowchart TB">>
                \o LayerBlocks(d, names, 1)
                \o (IF es # <<>> THEN RulesetEdgeLines(names, es, 1)
                    ELSE IF Len(names) >= 2 THEN ChainLines(names) ELSE <<>>)
                \o <<Fence>>)

\* one run of the overview renderer
RenderOverview ==
    /\ render = "overview"
    /\ Len(overviews) < MaxRuns
    /\ overviews' = Append(overviews, render_rich_layered_mermaid(layers_dict, edges))
    /\ UNCHANGED <<render, layer_arg, layers_dict, edges, diagrams, results>>
    /\ UNCHANGED <<report, config, l3_pc, l3_i, fell_back, layer_components,
                   component_dependencies>>

\* an occurrence of a component found by the scan
(***************************************************************************)
(* C4Level3Generator: the component list and the markdown of a layer       *)
(***************************************************************************)

\* _infer_purpose
infer_purpose(component_name) ==
    IF Contains(component_name, "Handler")
    THEN "Handles requests for "
             \o Replace(Replace(component_name, "Handler", ""), "Grid", "grid")
    ELSE IF Contains(component_name, "Controller")
    THEN "Controls " \o Replace(component_name, "Controller", "") \o " operations"
    ELSE IF Contains(component_name, "DAO")
    THEN "Database access for " \o Replace(component_name, "DAO", "")
    ELSE IF Contains(component_name, "Form")
    THEN "Form handling for " \o Replace(component_name, "Form", "")
    ELSE IF Contains(component_name, "Manager")
    THEN "Manages " \o Replace(component_name, "Manager", "") \o " operations"
    ELSE IF Contains(component_name, "Service")
    THEN "Service for " \o Replace(component_name, "Service", "")
    ELSE component_name \o " component"

RECURSIVE InsertByName(_, _)
\* name put into the sorted names before the first that is greater
InsertByName(sorted, name) ==
    IF sorted = <<>> THEN <<name>>
    ELSE IF StrLess(name, Head(sorted)) THEN <<name>> \o sorted
    ELSE <<Head(sorted)>> \o InsertByName(Tail(sorted), name)

RECURSIVE SortedByName(_, _)
\* sorted(names), for the first k names
SortedByName(names, k) ==
    IF k = 0 THEN <<>> ELSE InsertByName(SortedByName(names, k - 1), names[k])

\* the entry of one component in the component list
ComponentEntry(components, comp_name) ==
    LET details == components.val[comp_name]
    IN  [name |-> comp_name,
         purpose |-> infer_purpose(comp_name),
         violation_count |-> Len(details),
         file |-> IF details # <<>> THEN details[1].file ELSE "Unknown"]

\* the component list of a layer that is in the catalog
ComponentItems(cat, layer_name) ==
    LET components == cat.val[layer_name]
        names == SortedByName(components.keys, Len(components.keys))
    IN  [i \in 1..Len(names) |-> ComponentEntry(components, names[i])]

\* A component list that answers for a layer it does not know with one
\* entry without a name.
generate_component_list_Placeholder(cat, layer_name) ==
    IF ~DictHas(cat, layer_name)
    THEN <<[name |-> "", purpose |-> "", violation_count |-> 0, file |-> "Unknown"]>>
    ELSE ComponentItems(cat, layer_name)

\* generate_component_list
generate_component_list(cat, layer_name) ==
    IF ~DictHas(cat, layer_name) THEN <<>> ELSE ComponentItems(cat, layer_name)

RECURSIVE JoinWith(_, _)
\* sep.join(parts)
JoinWith(parts, sep) ==
    IF Len(parts) = 0 THEN ""
    ELSE IF Len(parts) = 1 THEN parts[1]
    ELSE parts[1] \o sep \o JoinWith(Tail(parts), sep)

\* the text of generate_markdown for a layer that is not in the catalog
NotFoundPage(cat, layer_name) ==
    "# Layer '" \o layer_name \o "' Not Found\n\n**Available layers:** "
        \o (IF cat.keys # <<>> THEN JoinWith(cat.keys, ", ") ELSE "None")
        \o "\n\n---\n\n*Please check the layer name and try again.*\n"

\* the section of one component
ComponentSection(detail) ==
    "#### " \o detail.name \o "\n\n"
        \o "**Purpose:** " \o detail.purpose \o "\n\n"
        \o "**File:** '" \o Last(Split(detail.file, "/")) \o "'\n\n"
        \o (IF detail.violation_count > 0
            THEN "**Architectural Issues:** " \o IntToStr(detail.violation_count)
                     \o " violations detected\n\n"
            ELSE "")
        \o "---\n\n"

RECURSIVE ComponentSections(_, _, _)
\* the sections of the components names, from the k-th on
ComponentSections(components, names, k) ==
    IF k > Len(names) THEN ""
    ELSE ComponentSection(ComponentEntry(components, names[k]))
             \o ComponentSections(components, names, k + 1)

RECURSIVE CategorySections(_, _, _)
\* the sections of the categories, from the k-th on
CategorySections(components, categorized, k) ==
    IF k > Len(categorized.keys) THEN ""
    ELSE LET category == categorized.keys[k]
             comp_names == categorized.val[category]
         IN  (IF comp_names # <<>>
              THEN "### " \o category \o "\n\n"
                       \o ComponentSections(components,
                                            SortedByName(comp_names, Len(comp_names)), 1)
              ELSE "")
             \o CategorySections(components, categorized, k + 1)

\* The closing notes of the page.  The warning sign before "Basic" is
\* written (!) and the backticks around the command are written as
\* apostrophes.
AnalysisNotes ==
    "## Analysis Notes\n\n(!) **Basic Component Analysis**\n\n"
        \o "This is a basic component-level analysis extracted from Deptrac violations. "
        \o "For enhanced analysis with:\n- Better component descriptions\n"
        \o "- Intelligent grouping\n- Architectural pattern detection\n- Business context\n"
        \o "- Refactoring recommendations\n\n"
        \o "Use the LLM-enhanced version: 'llm-enhancer.py --enhance-components'\n\n---\n\n"
        \o "*Component diagram generated from Deptrac dependency analysis*\n"

\* generate_markdown; now is the text of datetime.now() and ext_order the
\* order in which the diagram iterates its set of external layers
generate_markdown(cat, deps, layer_name, project_name, now, ext_order) ==
    IF ~DictHas(cat, layer_name) THEN NotFoundPage(cat, layer_name)
    ELSE LET component_list == generate_component_list(cat, layer_name)
             categorized == categorize_components(layer_name, cat.val[layer_name])
         IN  "# " \o project_name \o " - " \o layer_name \o " Layer (C4 Level 3)\n\n"
                 \o "**Generated:** " \o now \o "  \n"
                 \o "**Layer:** " \o layer_name \o "  \n"
                 \o "**Components:** " \o IntToStr(Len(component_list)) \o "  \n"
                 \o "**Source:** Deptrac dependency analysis\n\n---\n\n"
                 \o "## Component Diagram\n\n"
                 \o generate_layer_component_diagram(cat, deps, layer_name, ext_order)
                 \o "\n\n---\n\n## Component List\n\n"
                 \o CategorySections(cat.val[layer_name], categorized, 1)
                 \o "\n## Statistics\n\n"
                 \o "- **Total Components:** " \o IntToStr(Len(component_list)) \o "\n"
                 \o "- **Component Categories:** " \o IntToStr(Len(categorized.keys)) \o "\n"
                 \o "- **Internal Dependencies:** "
                 \o IntToStr(Len(SelectSeq(deps, LAMBDA d : IsInternal(d, layer_name)))) \o "\n"
                 \o "- **External Dependencies:** "
                 \o IntToStr(Len(SelectSeq(deps, LAMBDA d : IsExternal(d, layer_name)))) \o "\n"
                 \o "\n---\n\n"
                 \o AnalysisNotes

\* what one call on the generator gave: a text or a list
TextResult(op, layer_name, text) ==
    [op |-> op, layer |-> layer_name, text |-> text, items |-> <<>>]
ListResult(op, layer_name, items) ==
    [op |-> op, layer |-> layer_name, text |-> "", items |-> items]

\* the next layer of a batch: its diagram
BatchDiagram(layer_name) ==
    /\ render = "batch"
    /\ \E ext_order \in Orders(ExternalLayers(component_dependencies, layer_name)) :
          results' = Append(results,
                            TextResult("diagram", layer_name,
                                       generate_layer_component_diagram(layer_components,
                                           component_dependencies, layer_name, ext_order)))
    /\ UNCHANGED <<render, layer_arg, diagrams, layers_dict, edges, overviews>>
    /\ UNCHANGED <<report, config, l3_pc, l3_i, fell_back, layer_components,
                   component_dependencies>>

\* the next layer of a batch: its component list
BatchComponentList(layer_name) ==
    /\ render = "batch"
    /\ results' = Append(results,
                         ListResult("list", layer_name,
                                    generate_component_list(layer_components, layer_name)))
    /\ UNCHANGED <<render, layer_arg, diagrams, layers_dict, edges, overviews>>
    /\ UNCHANGED <<report, config, l3_pc, l3_i, fell_back, layer_components,
                   component_dependencies>>

\* the next layer of a batch: its markdown
BatchMarkdown(layer_name, now) ==
    /\ render = "batch"
    /\ \E ext_order \in Orders(ExternalLayers(component_dependencies, layer_name)) :
          results' = Append(results,
                            TextResult("markdown", layer_name,
                                       generate_markdown(layer_components,
                                           component_dependencies, layer_name, "Shop", now,
                                           ext_order)))
    /\ UNCHANGED <<render, layer_arg, diagrams, layers_dict, edges, overviews>>
    /\ UNCHANGED <<report, config, l3_pc, l3_i, fell_back, layer_components,
                   component_dependencies>>

Placeholder(file) == [file |-> file, message |-> PyNone, line |-> NoLine]

RECURSIVE CatalogOf(_, _)
\* the catalog holding the (layer, component) pairs of a list, from the
\* k-th on backwards
CatalogOf(pairs, k) ==
    IF k = 0 THEN EmptyDict
    ELSE CatalogAppend(CatalogOf(pairs, k - 1), pairs[k][1], pairs[k][2],
                       Placeholder("src/" \o pairs[k][2] \o ".php"))

\* catalogs as the builder leaves them
RenderCatalogs ==
    {CatalogOf(<<<<"Domain", "Order">>, <<"Domain", "class-cart">>>>, 2),
     CatalogOf(<<<<"Presentation", "OrderController">>, <<"Presentation", "LoginHandler">>,
                 <<"Presentation", "SignupForm">>, <<"Presentation", "Menu">>,
                 <<"Domain", "Order">>>>, 5),
     CatalogOf(<<<<"Infrastructure", "DoiClient">>, <<"Infrastructure", "Mailer">>,
                 <<"Infrastructure", "FileStore">>, <<"Persistence", "OrderDAO">>,
                 <<"Persistence", "OrderRepo">>, <<"Web", "index">>>>, 6)}

\* component edges as the builder leaves them
RenderEdges ==
    {[from |-> "Order", to |-> "class-cart", from_layer |-> "Domain", to_layer |-> "Domain"],
     [from |-> "Order", to |-> "Mailer", from_layer |-> "Domain", to_layer |-> "Infrastructure"],
     [from |-> "Order", to |-> "Menu", from_layer |-> "Domain", to_layer |-> "Presentation"],
     [from |-> "class-cart", to |-> "Order", from_layer |-> "Domain", to_layer |-> "Legacy Core"],
     [from |-> "Menu", to |-> "Order", from_layer |-> "Presentation", to_layer |-> "Domain"]}

\* The component edges of a large report: one edge of another layer, then
\* n_int edges inside Domain and n_ext edges from Domain to two other
\* layers, the kinds taking turns as long as both last.
ManyEdges(n_int, n_ext) ==
    LET inner(i) == IF i % 2 = 1
                    THEN [from |-> "Order", to |-> "class-cart", from_layer |-> "Domain",
                          to_layer |-> "Domain"]
                    ELSE [from |-> "class-cart", to |-> "Order", from_layer |-> "Domain",
                          to_layer |-> "Domain"]
        outer(i) == IF i % 2 = 1
                    THEN [from |-> "Order", to |-> "Mailer", from_layer |-> "Domain",
                          to_layer |-> "Infrastructure"]
                    ELSE [from |-> "class-cart", to |-> "Menu", from_layer |-> "Domain",
                          to_layer |-> "Presentation"]
        both == IF n_int < n_ext THEN n_int ELSE n_ext
    IN  <<[from |-> "Menu", to |-> "Order", from_layer |-> "Presentation",
           to_layer |-> "Domain"]>>
        \o [i \in 1..(2 * both) |-> IF i % 2 = 1 THEN inner((i + 1) \div 2) ELSE outer(i \div 2)]
        \o [i \in 1..(n_int - both) |-> inner(both + i)]
        \o [i \in 1..(n_ext - both) |-> outer(both + i)]

\* the diagram of Domain is asked of a generator built from a large report
ManyEdgesInit ==
    /\ diagrams = <<>>
    /\ overviews = <<>>
    /\ results = <<>>
    /\ render = "diagram"
    /\ layer_arg = "Domain"
    /\ layer_components = CatalogOf(<<<<"Domain", "Order">>, <<"Domain", "class-cart">>>>, 2)
    /\ \E n_int \in 0..MaxInternalEdges, n_ext \in 0..MaxExternalEdges :
          component_dependencies = ManyEdges(n_int, n_ext)
    /\ layers_dict = EmptyDict
    /\ edges = <<>>
    /\ report = [has_files |-> FALSE, entries |-> <<>>]
    /\ config = [kind |-> "missing", layers |-> <<>>]
    /\ l3_pc = "done"
    /\ l3_i = 1
    /\ fell_back = FALSE

\* the times at which a page is generated
Timestamps == {"2024-02-29 23:59:59", "2025-01-01 00:00:00"}

\* the layers of a batch, two of them in no catalog
BatchLayers == {"Domain", "Presentation", "Billing", "domain"}

\* the component edges of the generator of a batch
BatchEdges ==
    {<<>>,
     <<[from |-> "Order", to |-> "class-cart", from_layer |-> "Domain", to_layer |-> "Domain"],
       [from |-> "Order", to |-> "Menu", from_layer |-> "Domain", to_layer |-> "Presentation"],
       [from |-> "Menu", to |-> "Order", from_layer |-> "Presentation",
        to_layer |-> "Domain"]>>}

\* a built generator, with or without layers, before a batch of calls
BatchInit ==
    /\ diagrams = <<>>
    /\ overviews = <<>>
    /\ results = <<>>
    /\ render = "batch"
    /\ layer_arg = ""
    /\ layer_components \in RenderCatalogs \cup {EmptyDict}
    /\ component_dependencies \in BatchEdges
    /\ layers_dict = EmptyDict
    /\ edges = <<>>
    /\ report = [has_files |-> FALSE, entries |-> <<>>]
    /\ config = [kind |-> "missing", layers |-> <<>>]
    /\ l3_pc = "done"
    /\ l3_i = 1
    /\ fell_back = FALSE

\* the layers asked for, one of them in no catalog
RenderLayerArgs == {"Domain", "Presentation", "Infrastructure", "Persistence", "Web", "Billing"}

RECURSIVE CountsOf(_, _)
\* the dict of the (layer, count) pairs of a list
CountsOf(pairs, k) ==
    IF k = 0 THEN EmptyDict ELSE DictPut(CountsOf(pairs, k - 1), pairs[k][1], pairs[k][2])

\* layer counts of the overview: none, distinct counts, ties, names that
\* differ in case only
OverviewLayers ==
    {EmptyDict,
     CountsOf(<<<<"Web", 12>>>>, 1),
     CountsOf(<<<<"Infrastructure", 1>>, <<"Presentation", 3>>, <<"Domain", 3>>>>, 3),
     CountsOf(<<<<"core", 2>>, <<"Core", 2>>, <<"Legacy Core", 0>>>>, 3)}

\* rulesets of the overview
OverviewEdges ==
    {<<>>,
     <<<<"Presentation", "Domain">>>>,
     <<<<"presentation", "DOMAIN">>, <<"Domain", "Domain">>, <<"Core", "Legacy Core">>,
       <<"Domain", "Billing">>>>}

\* no renderer in use
RenderIdle ==
    /\ render = "idle"
    /\ layer_arg = ""
    /\ diagrams = <<>>
    /\ layers_dict = EmptyDict
    /\ edges = <<>>
    /\ overviews = <<>>
    /\ results = <<>>

\* a built generator asked for the diagram of a layer, or the overview
\* renderer given layer counts and a ruleset
RenderInit ==
    /\ diagrams = <<>>
    /\ overviews = <<>>
    /\ results = <<>>
    /\ \/ /\ render = "diagram"
          /\ layer_arg \in RenderLayerArgs
          /\ layer_components \in RenderCatalogs
          /\ component_dependencies \in SeqsUpTo(RenderEdges, MaxEdges)
          /\ layers_dict = EmptyDict
          /\ edges = <<>>
       \/ /\ render = "overview"
          /\ layers_dict \in OverviewLayers
          /\ edges \in OverviewEdges
          /\ layer_arg = ""
          /\ layer_components = EmptyDict
          /\ component_dependencies = <<>>
    /\ report = [has_files |-> FALSE, entries |-> <<>>]
    /\ config = [kind |-> "missing", layers |-> <<>>]
    /\ l3_pc = "done"
    /\ l3_i = 1
    /\ fell_back = FALSE

\* catalogs whose component names differ in blanks, hyphens and underscores
\* only, and one whose component has the name of another layer
AlikeCatalogs ==
    {CatalogOf(<<<<"Domain", "Order">>, <<"Domain", "order-item">>,
                 <<"Domain", "order_item">>>>, 3),
     CatalogOf(<<<<"Domain", "Order">>, <<"Web", "class cart">>,
                 <<"Web", "class-cart">>>>, 3),
     CatalogOf(<<<<"Domain", "Order">>, <<"Domain", "Web">>, <<"Web", "index">>>>, 3)}

\* component edges over those catalogs
AlikeEdges ==
    {[from |-> "Order", to |-> "order-item", from_layer |-> "Domain", to_layer |-> "Domain"],
     [from |-> "Order", to |-> "index", from_layer |-> "Domain", to_layer |-> "Web"],
     [from |-> "class cart", to |-> "Order", from_layer |-> "Web", to_layer |-> "Domain"]}

\* layer counts whose layer names differ in a blank, a hyphen or a dot only,
\* and layer counts of distinct names
AlikeLayers ==
    {CountsOf(<<<<"Legacy Core", 2>>, <<"Legacy-Core", 1>>>>, 2),
     CountsOf(<<<<"App.Web", 4>>, <<"App_Web", 4>>, <<"Domain", 3>>>>, 3),
     CountsOf(<<<<"Web", 2>>, <<"Domain", 3>>>>, 2)}

\* a built generator whose catalog holds names that are alike, asked for the
\* diagram of a layer, or the overview renderer given layers that are alike
AlikeInit ==
    /\ diagrams = <<>>
    /\ overviews = <<>>
    /\ results = <<>>
    /\ \/ /\ render = "diagram"
          /\ layer_arg \in {"Domain", "Web"}
          /\ layer_components \in AlikeCatalogs
          /\ component_dependencies \in SeqsUpTo(AlikeEdges, MaxEdges)
          /\ layers_dict = EmptyDict
          /\ edges = <<>>
       \/ /\ render = "overview"
          /\ layers_dict \in AlikeLayers
          /\ edges \in OverviewEdges
          /\ layer_arg = ""
          /\ layer_components = EmptyDict
          /\ component_dependencies = <<>>
    /\ report = [has_files |-> FALSE, entries |-> <<>>]
    /\ config = [kind |-> "missing", layers |-> <<>>]
    /\ l3_pc = "done"
    /\ l3_i = 1
    /\ fell_back = FALSE

(***************************************************************************)
(* Python float: IEEE 754 binary64, for the values 0 and 2^-4 .. 2^10      *)
(***************************************************************************)

\* A float x is the integer x * 2^56, written in base 2^14 with the lowest
\* digit first.  Every binary64 value from 2^-4 up is a multiple of 2^-56,
\* and so is every sum of such values.
FloatBase == 16384
FloatDigits == 5
\* the bits of the significand of a binary64 value
FloatPrecision == 53

FZero == <<0, 0, 0, 0, 0>>

RECURSIVE AddDigits(_, _, _, _)
\* the digits of a + b from the i-th on, with the carry that reaches them
AddDigits(a, b, i, carry) ==
    IF i > FloatDigits THEN <<>>
    ELSE LET s == a[i] + b[i] + carry
         IN  <<s % FloatBase>> \o AddDigits(a, b, i + 1, s \div FloatBase)

RECURSIVE BitLength(_)
\* the number of bits of a natural number
BitLength(n) == IF n = 0 THEN 0 ELSE 1 + BitLength(n \div 2)

RECURSIVE Pow2(_)
Pow2(d) == IF d = 0 THEN 1 ELSE 2 * Pow2(d - 1)

\* the number of bits of x * 2^56
FloatBitLength(x) ==
    LET nonzero == {i \in 1..FloatDigits : x[i] # 0}
    IN  IF nonzero = {} THEN 0
        ELSE LET top == CHOOSE i \in nonzero : \A j \in nonzero : j <= i
             IN  14 * (top - 1) + BitLength(x[top])

\* the exact sum rounded to 53 significant bits, ties to the even significand
RoundToPrecision(x) ==
    LET d == FloatBitLength(x) - FloatPrecision
    IN  IF d <= 0 THEN x
        ELSE LET unit == Pow2(d)
                 rest == x[1] % unit
                 kept == [x EXCEPT ![1] = x[1] - rest]
                 odd == (x[1] \div unit) % 2 = 1
             IN  IF 2 * rest > unit \/ (2 * rest = unit /\ odd)
                 THEN AddDigits(kept, <<unit, 0, 0, 0, 0>>, 1, 0)
                 ELSE kept

\* a + b on float
FAdd(a, b) == RoundToPrecision(AddDigits(a, b, 1, 0))

\* a with zero digits added at the top, up to n digits
PadDigits(a, n) == a \o [i \in 1..(n - Len(a)) |-> 0]

RECURSIVE ScaleDigits(_, _, _, _)
\* the digits of a * k from the i-th on, for a digit k
ScaleDigits(a, k, i, carry) ==
    IF i > Len(a) THEN <<carry>>
    ELSE LET s == a[i] * k + carry
         IN  <<s % FloatBase>> \o ScaleDigits(a, k, i + 1, s \div FloatBase)

RECURSIVE SumDigits(_, _, _, _)
\* the digits of a + b from the i-th on, for a and b of one length
SumDigits(a, b, i, carry) ==
    IF i > Len(a) THEN <<carry>>
    ELSE LET s == a[i] + b[i] + carry
         IN  <<s % FloatBase>> \o SumDigits(a, b, i + 1, s \div FloatBase)

\* a + b and a * FloatBase^n on digit sequences of any length
BigAdd(a, b) ==
    LET n == IF Len(a) > Len(b) THEN Len(a) ELSE Len(b)
    IN  SumDigits(PadDigits(a, n), PadDigits(b, n), 1, 0)
ShiftDigits(a, n) == [i \in 1..n |-> 0] \o a

RECURSIVE BigMulFrom(_, _, _)
\* a times the digits of b from the i-th on
BigMulFrom(a, b, i) ==
    IF i > Len(b) THEN <<0>>
    ELSE BigAdd(ShiftDigits(ScaleDigits(a, b[i], 1, 0), i - 1), BigMulFrom(a, b, i + 1))

\* a < b on digit sequences of any length
BigLess(a, b) ==
    LET n == IF Len(a) > Len(b) THEN Len(a) ELSE Len(b)
        x == PadDigits(a, n)
        y == PadDigits(b, n)
    IN  \E i \in 1..n : x[i] < y[i] /\ \A j \in (i + 1)..n : x[j] = y[j]

RECURSIVE SubDigits(_, _, _, _)
\* the digits of a - b from the i-th on, for a >= b
SubDigits(a, b, i, borrow) ==
    IF i > FloatDigits THEN <<>>
    ELSE LET s == a[i] - b[i] - borrow
         IN  IF s < 0 THEN <<s + FloatBase>> \o SubDigits(a, b, i + 1, 1)
             ELSE <<s>> \o SubDigits(a, b, i + 1, 0)

\* abs(a - b) on float
FAbsDiff(a, b) ==
    RoundToPrecision(IF BigLess(a, b) THEN SubDigits(b, a, 1, 0) ELSE SubDigits(a, b, 1, 0))

\* The float 0.05 is 7205759403792794 * 2^-57, and a quotient rounds to a
\* float above it exactly if it is above the middle between that float and
\* the next, (2 * 7205759403792794 + 1) * 2^-58.
AboveFivePercent == <<13109, 3276, 13107, 3276>>

\* The quotient compared with a tenth in place of 0.05.
FRatioExceedsTenth(d, t) ==
    BigLess(BigMulFrom(t, AboveFivePercent, 1), ShiftDigits(ScaleDigits(d, 2, 1, 0), 4))

\* d / t > 0.05 on float, for t # 0
FRatioExceeds(d, t) ==
    BigLess(BigMulFrom(t, AboveFivePercent, 1), ShiftDigits(ScaleDigits(d, 4, 1, 0), 4))

\* format(x, ".1f") for x >= 0: x * 10 has its fraction in the four lowest
\* digits; the tenths are rounded to nearest, ties to even
FormatTenths(x) ==
    LET scaled == ScaleDigits(x, 10, 1, 0)
        whole == scaled[5] + FloatBase * scaled[6]
        frac == SubSeq(scaled, 1, 4)
        half == <<0, 0, 0, 8192>>
        tenths == IF BigLess(half, frac) \/ (frac = half /\ whole % 2 = 1) THEN whole + 1
                  ELSE whole
    IN  IntToStr(tenths \div 10) \o "." \o IntToStr(tenths % 10)

(***************************************************************************)
(* create-master-index.py: reading the metrics documents                   *)
(***************************************************************************)

\* A number under a key of a document: an int, or a float, or nothing (the
\* key is absent or holds null); or, in place of a number, a text that is
\* no numeral.
NumAbsent == [k |-> "absent", n |-> 0]
Num(n) == [k |-> "num", n |-> n]
NumText == [k |-> "text", n |-> 0]
FltAbsent == [k |-> "absent", n |-> FZero]
Flt(x) == [k |-> "num", n |-> x]

\* The float values the documents hold.
F_0_1 == <<6554, 9830, 6553, 1638, 0>>
F_0_2 == <<13108, 3276, 13107, 3276, 0>>
F_0_3 == <<3276, 13107, 3276, 4915, 0>>
F_0_125 == <<0, 0, 0, 2048, 0>>
F_0_25 == <<0, 0, 0, 4096, 0>>
F_1_5 == <<0, 0, 0, 8192, 1>>
F_1_9 == <<9824, 6553, 9830, 14745, 1>>
F_2_0 == <<0, 0, 0, 0, 2>>
F_2_5 == <<0, 0, 0, 8192, 2>>
F_19_0 == <<0, 0, 0, 0, 19>>
F_20_0 == <<0, 0, 0, 0, 20>>

\* A num that counts what is missing as 0.125.
num_DefaultEighth(x) == IF x.k = "num" THEN x.n ELSE F_0_125

\* num(x): float(x or 0)
num(x) == IF x.k = "num" THEN x.n ELSE FZero

\* int(x or 0), on the token counts
IntOrZero(x) == IF x.k = "num" THEN x.n ELSE 0


\* The value under "version": absent, null, a str, a float with one decimal
\* digit, or an int.
VerAbsent == [k |-> "absent", s |-> "", whole |-> 0, tenths |-> 0]
VerNull == [k |-> "null", s |-> "", whole |-> 0, tenths |-> 0]
VerStr(s) == [k |-> "str", s |-> s, whole |-> 0, tenths |-> 0]
VerFloat(whole, tenths) == [k |-> "float", s |-> "", whole |-> whole, tenths |-> tenths]
VerInt(n) == [k |-> "int", s |-> "", whole |-> n, tenths |-> 0]

\* str(obj.get("version", ""))
VersionStr(v) ==
    CASE v.k = "absent" -> ""
      [] v.k = "null" -> "None"
      [] v.k = "str" -> v.s
      [] v.k = "float" -> IntToStr(v.whole) \o "." \o IntToStr(v.tenths)
      [] v.k = "int" -> IntToStr(v.whole)

\* The value under "levels" or "totals": absent, null, a mapping, or a list.
MapAbsent == [k |-> "absent", d |-> EmptyDict]
MapNull == [k |-> "null", d |-> EmptyDict]
MapList == [k |-> "list", d |-> EmptyDict]
MapOf(d) == [k |-> "dict", d |-> d]

\* obj.get(key, {}) and isinstance(..., dict)
GetOrEmpty(m) == IF m.k = "absent" THEN MapOf(EmptyDict) ELSE m
IsDict(m) == m.k = "dict"

\* the four numbers of a totals mapping or of a level entry
Figures(cost, time, tokens_in, tokens_out) ==
    [cost |-> cost, time |-> time, tokens_in |-> tokens_in, tokens_out |-> tokens_out]
ZeroFigures == Figures(FZero, FZero, 0, 0)

\* what an extraction returns: None, or totals and levels
NoneParsed == [k |-> "none", totals |-> ZeroFigures, levels |-> EmptyDict]
Parsed(totals, levels) == [k |-> "parsed", totals |-> totals, levels |-> levels]

\* totals.get(name), on the totals mapping of a document
TotalsGet(totals, name) ==
    IF DictHas(totals, name) THEN totals.val[name]
    ELSE IF name \in {"cost_usd", "time_seconds"} THEN FltAbsent ELSE NumAbsent

RECURSIVE V1Levels(_, _)
\* out["levels"] of _extract_v1: the entries of levels that are mappings, up
\* to the k-th
V1Levels(levels, k) ==
    IF k = 0 THEN EmptyDict
    ELSE LET name == levels.keys[k]
             v == levels.val[name]
             before == V1Levels(levels, k - 1)
         IN  IF v.k # "dict" THEN before
             ELSE DictPut(before, name,
                          [cost |-> num(v.cost_usd), time |-> num(v.time_seconds),
                           tokens_in |-> IntOrZero(v.tokens_in),
                           tokens_out |-> IntOrZero(v.tokens_out),
                           model |-> v.model])

\* The reading of the canonical shape in which a missing levels or totals is
\* no mapping.
extract_v1_MissingIsNoMapping(obj) ==
    IF obj.kind # "dict" THEN NoneParsed
    ELSE IF Strip(VersionStr(obj.version)) # "1.0" THEN NoneParsed
    ELSE IF ~IsDict(obj.levels) \/ ~IsDict(obj.totals) THEN NoneParsed
    ELSE Parsed(Figures(num(TotalsGet(obj.totals.d, "cost_usd")),
                        num(TotalsGet(obj.totals.d, "time_seconds")),
                        IntOrZero(TotalsGet(obj.totals.d, "tokens_in")),
                        IntOrZero(TotalsGet(obj.totals.d, "tokens_out"))),
                V1Levels(obj.levels.d, Len(obj.levels.d.keys)))

\* _extract_v1
extract_v1(obj) ==
    IF obj.kind # "dict" THEN NoneParsed
    ELSE IF Strip(VersionStr(obj.version)) # "1.0" THEN NoneParsed
    ELSE LET levels == GetOrEmpty(obj.levels)
             totals == GetOrEmpty(obj.totals)
         IN  IF ~IsDict(levels) \/ ~IsDict(totals) THEN NoneParsed
             ELSE Parsed(Figures(num(TotalsGet(totals.d, "cost_usd")),
                                 num(TotalsGet(totals.d, "time_seconds")),
                                 IntOrZero(TotalsGet(totals.d, "tokens_in")),
                                 IntOrZero(TotalsGet(totals.d, "tokens_out"))),
                         V1Levels(levels.d, Len(levels.d.keys)))

\* a or b on two str values that may be None
OrElse(a, b) == IF Truthy(a) THEN a ELSE b

\* _extract_legacy
extract_legacy(obj) ==
    IF obj.kind # "dict" THEN NoneParsed
    ELSE LET cost == IF obj.total_cost.k = "num" THEN obj.total_cost.n ELSE num(obj.cost_usd)
             time_s == IF obj.total_time.k = "num" THEN obj.total_time.n
                       ELSE num(obj.duration_seconds)
             tokens_in == IntOrZero(obj.input_tokens)
             tokens_out == IntOrZero(obj.output_tokens)
             guess == StrOf(OrElse(obj.level, OrElse(obj.stage, OrElse(obj.phase, PyStr("legacy")))))
         IN  Parsed(Figures(cost, time_s, tokens_in, tokens_out),
                    DictPut(EmptyDict, guess,
                            [cost |-> cost, time |-> time_s, tokens_in |-> tokens_in,
                             tokens_out |-> tokens_out, model |-> obj.model]))

\* bool(obj): a mapping without keys and a list without items are false
DocTruthy(obj) == ~obj.empty

\* which extraction gives read_all_metrics the figures of a document
RouteOf(obj) ==
    IF ~DocTruthy(obj) THEN "skipped"
    ELSE IF extract_v1(obj).k # "none" THEN "canonical"
    ELSE IF extract_legacy(obj).k # "none" THEN "legacy"
    ELSE "skipped"

\* _extract_v1(obj) or _extract_legacy(obj)
ParsedOf(obj) == IF extract_v1(obj).k # "none" THEN extract_v1(obj) ELSE extract_legacy(obj)

\* _ensure_stage
ensure_stage(bucket, key) ==
    IF DictHas(bucket, key) THEN bucket
    ELSE DictPut(bucket, key,
                 [cost |-> FZero, time |-> FZero, tokens_in |-> 0, tokens_out |-> 0,
                  model |-> PyNone])

RECURSIVE MergeLevels_LastModel(_, _, _)
\* The loop over parsed["levels"] in which every model given replaces the
\* one recorded.
MergeLevels_LastModel(bucket, levels, k) ==
    IF k = 0 THEN bucket
    ELSE LET lvl == levels.keys[k]
             data == levels.val[lvl]
             b == ensure_stage(MergeLevels_LastModel(bucket, levels, k - 1), lvl)
             s == b.val[lvl]
         IN  DictPut(b, lvl,
                     [cost |-> FAdd(s.cost, data.cost),
                      time |-> FAdd(s.time, data.time),
                      tokens_in |-> s.tokens_in + data.tokens_in,
                      tokens_out |-> s.tokens_out + data.tokens_out,
                      model |-> IF Truthy(data.model) THEN data.model ELSE s.model])

RECURSIVE MergeLevels(_, _, _)
\* the loop over parsed["levels"], up to the k-th level
MergeLevels(bucket, levels, k) ==
    IF k = 0 THEN bucket
    ELSE LET lvl == levels.keys[k]
             data == levels.val[lvl]
             b == ensure_stage(MergeLevels(bucket, levels, k - 1), lvl)
             s == b.val[lvl]
         IN  DictPut(b, lvl,
                     [cost |-> FAdd(s.cost, data.cost),
                      time |-> FAdd(s.time, data.time),
                      tokens_in |-> s.tokens_in + data.tokens_in,
                      tokens_out |-> s.tokens_out + data.tokens_out,
                      model |-> IF ~Truthy(s.model) /\ Truthy(data.model) THEN data.model
                                ELSE s.model])

\* total_cost, total_time, total_tokens_in and total_tokens_out after the
\* file that holds obj
MergedTotal(tot, obj) ==
    IF DocTruthy(obj) /\ ParsedOf(obj).k # "none"
    THEN LET parsed == ParsedOf(obj)
         IN  Figures(FAdd(tot.cost, parsed.totals.cost),
                     FAdd(tot.time, parsed.totals.time),
                     tot.tokens_in + parsed.totals.tokens_in,
                     tot.tokens_out + parsed.totals.tokens_out)
    ELSE tot

\* stages after the file that holds obj
MergedStages(bucket, obj) ==
    IF DocTruthy(obj) /\ ParsedOf(obj).k # "none"
    THEN MergeLevels(bucket, ParsedOf(obj).levels, Len(ParsedOf(obj).levels.keys))
    ELSE bucket

\* int(ti) or int(to) of _extract_legacy raises ValueError: the document
\* reaches the legacy extraction with a token count that is no numeral
LegacyRaises(obj) ==
    /\ DocTruthy(obj)
    /\ extract_v1(obj).k = "none"
    /\ obj.kind = "dict"
    /\ obj.input_tokens.k = "text" \/ obj.output_tokens.k = "text"

\* one metrics file in read_all_metrics
ReadDoc(obj) ==
    /\ m_pc = "reading"
    /\ docs' = Append(docs, obj)
    /\ IF LegacyRaises(obj)
       THEN /\ m_pc' = "raised"
            /\ UNCHANGED <<handled, total, stages, summary, legend>>
       ELSE /\ handled' = Append(handled, RouteOf(obj))
            /\ total' = MergedTotal(total, obj)
            /\ stages' = MergedStages(stages, obj)
            /\ UNCHANGED <<m_pc, summary, legend>>

\* no summary yet
NoSummary ==
    [total_cost |-> FZero, total_tokens |-> 0, total_time |-> FZero, breakdown |-> EmptyDict]

RECURSIVE Breakdown(_, _)
\* breakdown, up to the k-th stage
Breakdown(bucket, k) ==
    IF k = 0 THEN EmptyDict
    ELSE LET lvl == bucket.keys[k]
             s == bucket.val[lvl]
         IN  DictPut(Breakdown(bucket, k - 1), lvl,
                     [cost |-> s.cost, time |-> s.time, tokens |-> s.tokens_in + s.tokens_out])

\* what read_all_metrics returns
SummaryOf(tot, bucket) ==
    [total_cost |-> tot.cost,
     total_tokens |-> tot.tokens_in + tot.tokens_out,
     total_time |-> tot.time,
     breakdown |-> Breakdown(bucket, Len(bucket.keys))]

\* the end of read_all_metrics
FinishMetrics ==
    /\ m_pc = "reading"
    /\ m_pc' = "done"
    /\ summary' = SummaryOf(total, stages)
    /\ UNCHANGED <<docs, handled, total, stages, legend>>

\* the stages of the table of costs, in the order of its rows
display_order == <<"level1", "level2", "level3", "level4", "architecture_review">>

RECURSIVE GrandTime(_, _)
\* grand_time after the first k rows of display_order
GrandTime(bucket, k) ==
    IF k = 0 THEN FZero
    ELSE IF DictHas(bucket, display_order[k])
         THEN FAdd(GrandTime(bucket, k - 1), bucket.val[display_order[k]].time)
         ELSE GrandTime(bucket, k - 1)

LegendText ==
    "_Legend: **in** = prompt tokens, **out** = completion tokens. "
        \o "All costs are from OpenRouter usage accounting._"
NoL3Note == "\n\n_Note: No L3 analysis run for this repo._"

\* the footnote on total_time and stage_sum_time, or nothing
Footnote(total_time, stage_sum_time) ==
    IF total_time # FZero /\ FRatioExceeds(FAbsDiff(total_time, stage_sum_time), total_time)
    THEN "\n\n_Footnote: Total time (" \o FormatTenths(total_time)
             \o "s) includes non-LLM overhead (e.g., parsing, IO, prompt build). "
             \o "Per-stage durations sum to " \o FormatTenths(stage_sum_time) \o "s; delta "
             \o (IF BigLess(total_time, stage_sum_time) THEN "-" ELSE "+")
             \o FormatTenths(FAbsDiff(total_time, stage_sum_time)) \o "s._"
    ELSE ""

\* generate_master_index, after read_all_metrics: the legend of the table
WriteLegend ==
    /\ m_pc = "done"
    /\ m_pc' = "indexed"
    /\ legend' = LegendText
                     \o (IF DictHas(stages, "level3") THEN "" ELSE NoL3Note)
                     \o Footnote(summary.total_time, GrandTime(stages, Len(display_order)))
    /\ UNCHANGED <<docs, handled, total, stages, summary>>

MetricsInit ==
    /\ m_pc = "reading"
    /\ docs = <<>>
    /\ handled = <<>>
    /\ total = ZeroFigures
    /\ stages = EmptyDict
    /\ summary = NoSummary
    /\ legend = ""

\* no metrics are read
MetricsIdle ==
    /\ m_pc = "idle"
    /\ docs = <<>>
    /\ handled = <<>>
    /\ total = ZeroFigures
    /\ stages = EmptyDict
    /\ summary = NoSummary
    /\ legend = ""

\* a level entry of a canonical document, and an entry that is no mapping
LevelEntry(cost, time, tokens_in, tokens_out, model) ==
    [k |-> "dict", cost_usd |-> cost, time_seconds |-> time, tokens_in |-> tokens_in,
     tokens_out |-> tokens_out, model |-> model]
LevelNoMapping == [LevelEntry(FltAbsent, FltAbsent, NumAbsent, NumAbsent, PyNone) EXCEPT !.k = "other"]

\* the levels and the totals mapping of the canonical documents
SomeLevels ==
    MapOf(DictPut(DictPut(EmptyDict, "level1",
                          LevelEntry(Flt(F_1_5), Flt(F_2_0), Num(10), Num(5), PyStr("model-a"))),
                  "notes", LevelNoMapping))
SomeTotals ==
    MapOf(DictPut(DictPut(DictPut(EmptyDict, "cost_usd", Flt(F_1_5)), "time_seconds", Flt(F_2_5)),
                  "tokens_in", Num(10)))

\* a document that is a mapping: its version, levels and totals, and the
\* keys the legacy extraction reads
Doc(version, levels, totals, legacy) ==
    [kind |-> "dict",
     empty |-> version.k = "absent" /\ levels.k = "absent" /\ totals.k = "absent" /\ ~legacy,
     version |-> version, levels |-> levels, totals |-> totals,
     total_cost |-> IF legacy THEN Flt(F_0_25) ELSE FltAbsent,
     cost_usd |-> FltAbsent,
     input_tokens |-> IF legacy THEN Num(7) ELSE NumAbsent,
     output_tokens |-> NumAbsent,
     total_time |-> FltAbsent,
     duration_seconds |-> IF legacy THEN Flt(F_0_125) ELSE FltAbsent,
     level |-> PyNone,
     stage |-> IF legacy THEN PyStr("review") ELSE PyNone,
     phase |-> PyNone,
     model |-> IF legacy THEN PyStr("model-b") ELSE PyNone]

\* A document of the older shape: the keys the legacy extraction reads, each
\* present or absent.
LegacyDoc(total_cost, cost_usd, total_time, duration_seconds, input_tokens, output_tokens) ==
    [Doc(VerAbsent, MapAbsent, MapAbsent, TRUE) EXCEPT
        !.total_cost = total_cost, !.cost_usd = cost_usd, !.total_time = total_time,
        !.duration_seconds = duration_seconds, !.input_tokens = input_tokens,
        !.output_tokens = output_tokens, !.stage = PyNone, !.model = PyNone]

\* The older documents read: costs that are no binary fractions, under one
\* stage named by "level" or by "stage", with no model, an empty model and
\* two models; a document with no cost, no time and no name of a stage; one
\* whose output_tokens is a text; a document named by "phase".
LegacyDocs ==
    {[LegacyDoc(FltAbsent, Flt(F_0_1), FltAbsent, Flt(F_0_1), NumAbsent, NumAbsent)
         EXCEPT !.level = PyStr("level3")],
     [LegacyDoc(Flt(F_0_2), FltAbsent, Flt(F_0_2), FltAbsent, Num(7), NumAbsent)
         EXCEPT !.level = PyStr("level3"), !.model = PyStr("")],
     [LegacyDoc(Flt(F_0_3), Flt(F_0_1), Flt(F_0_3), Flt(F_2_0), Num(7), Num(3))
         EXCEPT !.stage = PyStr("level3"), !.model = PyStr("model-a")],
     [LegacyDoc(Flt(F_0_25), FltAbsent, FltAbsent, FltAbsent, NumAbsent, Num(3))
         EXCEPT !.level = PyStr("level3"), !.stage = PyStr("level2"),
                !.model = PyStr("model-b")],
     LegacyDoc(FltAbsent, FltAbsent, FltAbsent, FltAbsent, Num(7), NumAbsent),
     LegacyDoc(Flt(F_0_1), FltAbsent, FltAbsent, FltAbsent, NumAbsent, NumText),
     [LegacyDoc(FltAbsent, FltAbsent, FltAbsent, Flt(F_0_2), NumAbsent, NumAbsent)
         EXCEPT !.phase = PyStr("review"), !.model = PyStr("model-b")]}

\* a canonical document with one level and the time of its totals
TimedDoc(lvl, level_time, totals_time) ==
    Doc(VerStr("1.0"),
        MapOf(DictPut(EmptyDict, lvl,
                      LevelEntry(Flt(F_0_25), level_time, Num(10), Num(5), PyStr("model-a")))),
        MapOf(DictPut(DictPut(EmptyDict, "cost_usd", Flt(F_0_25)), "time_seconds", totals_time)),
        FALSE)

\* The documents under a master index: total times above, at, just off and
\* below the sum of the levels, a null total time, and an older document
\* whose stage has no row in the table.
IndexDocs ==
    {TimedDoc("level1", Flt(F_2_0), Flt(F_2_5)),
     TimedDoc("level2", Flt(F_1_9), Flt(F_2_0)),
     TimedDoc("level3", Flt(F_19_0), Flt(F_20_0)),
     TimedDoc("level4", Flt(F_2_0), FltAbsent),
     TimedDoc("level1", Flt(F_2_5), Flt(F_2_0)),
     TimedDoc("architecture_review", Flt(F_2_0), Flt(F_2_0)),
     [LegacyDoc(FltAbsent, FltAbsent, FltAbsent, Flt(F_0_2), NumAbsent, NumAbsent)
         EXCEPT !.phase = PyStr("review"), !.model = PyStr("model-b")]}

\* a document that is a list
ListDoc(empty) == [Doc(VerAbsent, MapAbsent, MapAbsent, FALSE) EXCEPT !.kind = "list", !.empty = empty]

MetricsVersions ==
    {VerAbsent, VerNull, VerStr("1.0"), VerStr(" 1.0\n"), VerStr("1"), VerStr("2.0"),
     VerFloat(1, 0), VerFloat(1, 1), VerInt(1)}
MetricsMaps == {MapAbsent, MapNull, MapList, SomeLevels}

\* The documents read: every version with levels and totals, version "1.0"
\* with every shape of levels and totals, legacy documents, and the
\* documents that are empty or no mapping.
MetricsDocs ==
    {Doc(v, SomeLevels, SomeTotals, TRUE) : v \in MetricsVersions}
    \cup {Doc(VerStr("1.0"), l, IF t = SomeLevels THEN SomeTotals ELSE t, TRUE) :
            l \in MetricsMaps, t \in MetricsMaps}
    \cup {Doc(VerFloat(1, 0), MapAbsent, MapAbsent, FALSE),
          Doc(VerAbsent, MapAbsent, MapAbsent, TRUE),
          Doc(VerAbsent, MapAbsent, MapAbsent, FALSE),
          ListDoc(TRUE), ListDoc(FALSE)}

(***************************************************************************)
(* mermaid_safe_id as a function of its input                              *)
(***************************************************************************)

Pending == [k |-> "pending", v |-> ""]

\* the call mermaid_safe_id(sid_in)
CallSafeId ==
    /\ sid_out = Pending
    /\ sid_out' = PyStr(mermaid_safe_id(sid_in))
    /\ UNCHANGED sid_in

SafeIdIdle == sid_in = PyNone /\ sid_out = Pending

(***************************************************************************)
(* sanitize_output_files.py: normalize_mermaid_block                       *)
(***************************************************************************)

\* the class [A-Za-z0-9_.:-] of the identifiers as they are written
RawIdChars == SafeChars \cup {".", ":", "-"}

\* the class [-\.] of the arrows
ArrowChars == {"-", "."}

RECURSIVE RunEnd(_, _, _)
\* the position after the longest run of characters of chars that starts at i
RunEnd(s, i, chars) ==
    IF i <= Len(s) /\ CharAt(s, i) \in chars THEN RunEnd(s, i + 1, chars) ELSE i

\* whether the character at i is c; no character lies past the end
IsAt(s, i, c) == i >= 1 /\ i <= Len(s) /\ CharAt(s, i) = c

\* ^ under re.M: at the start of the text and after every newline
LineStart(s, i) == i = 1 \/ CharAt(s, i - 1) = "\n"

\* \b: a word character on one side of position i and none on the other
WordBoundary(s, i) ==
    (i > 1 /\ CharAt(s, i - 1) \in SafeChars) # (i <= Len(s) /\ CharAt(s, i) \in SafeChars)

\* the alternation (TB|LR|RL|BT)
RewrittenDirections == {"TB", "LR", "RL", "BT"}

\* where a match of ^\s*graph\s+(TB|LR|RL|BT)\b that starts at i ends (the
\* position after it), 0 when there is none
DirectiveMatch(s, i) ==
    LET g == RunEnd(s, i, Whitespace)
        d == RunEnd(s, g + 5, Whitespace)
    IN  IF /\ LineStart(s, i)
           /\ StartsAt(s, "graph", g)
           /\ d > g + 5
           /\ \E direction \in RewrittenDirections : StartsAt(s, direction, d)
           /\ WordBoundary(s, d + 2)
        THEN d + 2
        ELSE 0

\* the start of the line after the one position i is on, Len(s) + 1 when
\* there is none
NextLineStart(s, i) ==
    LET starts == {j \in (i + 1)..Len(s) : CharAt(s, j - 1) = "\n"}
    IN  IF starts = {} THEN Len(s) + 1
        ELSE CHOOSE j \in starts : \A k \in starts : j <= k

RECURSIVE SubDirective(_, _)
\* re.sub(r'^\s*graph\s+(TB|LR|RL|BT)\b', r'flowchart \1', s, flags=re.M),
\* from position i on: every match, left to right, is replaced; the text
\* between the matches is kept
SubDirective(s, i) ==
    IF i > Len(s) THEN ""
    ELSE LET e == DirectiveMatch(s, i)
             n == NextLineStart(s, i)
         IN  IF e # 0 THEN "flowchart " \o SubSeq(s, e - 2, e - 1) \o SubDirective(s, e)
             ELSE SubSeq(s, i, n - 1) \o SubDirective(s, n)

RECURSIVE SplitLines(_)
\* s.splitlines(), for texts whose only line boundary is "\n"
SplitLines(s) ==
    IF s = "" THEN <<>>
    ELSE LET n == NextLineStart(s, 1)
         IN  IF n > Len(s)
             THEN <<IF CharAt(s, Len(s)) = "\n" THEN SubSeq(s, 1, Len(s) - 1) ELSE s>>
             ELSE <<SubSeq(s, 1, n - 2)>> \o SplitLines(SubSeq(s, n, Len(s)))

\* mermaid_safe_id of sanitize_output_files.py
sanitizer_safe_id(name) ==
    LET base == ReSubUnsafe(name)
    IN  IF base = "" \/ CharAt(base, 1) \in Digits THEN "n_" \o base ELSE base

\* hashlib.md5(raw.encode("utf-8")).hexdigest()[:6], tabulated for the
\* identifiers of the blocks below (the digests are MD5's own)
RawMd5Hex6(raw) ==
    CASE raw = "a_b" -> "dbf08e"
      [] raw = "a.b" -> "e32b62"
      [] raw = "a:b" -> "d8160c"
      [] raw = "A" -> "7fc562"
      [] raw = "B" -> "9d5ed6"

\* id_map and used_ids at the start of a block
NoIds == [id_map |-> <<>>, used_ids |-> {}]

\* unique_id(raw): the id, and id_map and used_ids after the call
unique_id(ids, raw) ==
    IF raw \in DOMAIN ids.id_map THEN [ids |-> ids, sid |-> ids.id_map[raw]]
    ELSE LET base == sanitizer_safe_id(raw)
             sid == IF base \in ids.used_ids THEN base \o "_" \o RawMd5Hex6(raw) ELSE base
         IN  [ids |-> [id_map |-> (raw :> sid) @@ ids.id_map,
                       used_ids |-> ids.used_ids \cup {sid}],
              sid |-> sid]

\* s.replace(old, new, 1)
ReplaceFirst(s, old, new) ==
    LET p == Find(s, old, 1)
    IN  IF p = 0 THEN s
        ELSE SubSeq(s, 1, p - 1) \o new \o SubSeq(s, p + Len(old), Len(s))

\* re.match(r"\s*([A-Za-z0-9_.:-]+)\s*([\[\(])", line): a node declaration
NodeMatch(line) ==
    LET a == RunEnd(line, 1, Whitespace)
        b == RunEnd(line, a, RawIdChars)
        c == RunEnd(line, b, Whitespace)
    IN  IF b > a /\ (IsAt(line, c, "[") \/ IsAt(line, c, "("))
        THEN [ok |-> TRUE, raw |-> SubSeq(line, a, b - 1), bracket |-> CharAt(line, c)]
        ELSE [ok |-> FALSE, raw |-> "", bracket |-> ""]

\* re.match(r"\s*([A-Za-z0-9_.:-]+)\s*([-\.]+>)\s*([A-Za-z0-9_.:-]+)", line):
\* an edge.  The identifier is the longest run that leaves an arrow behind it:
\* the whole run when white space and an arrow follow, the run without its
\* last character when that is - or . and > follows at once.
EdgeMatch(line) ==
    LET a == RunEnd(line, 1, Whitespace)
        b == RunEnd(line, a, RawIdChars)
        c == RunEnd(line, b, Whitespace)
        h == RunEnd(line, c, ArrowChars)
        whole == b > a /\ h > c /\ IsAt(line, h, ">")
        short == b - a >= 2 /\ CharAt(line, b - 1) \in ArrowChars /\ IsAt(line, b, ">")
        gt == IF whole THEN h ELSE b
        e == RunEnd(line, gt + 1, Whitespace)
        f == RunEnd(line, e, RawIdChars)
    IN  IF (whole \/ short) /\ f > e
        THEN [ok |-> TRUE,
              src_raw |-> SubSeq(line, a, IF whole THEN b - 1 ELSE b - 2),
              dst_raw |-> SubSeq(line, e, f - 1)]
        ELSE [ok |-> FALSE, src_raw |-> "", dst_raw |-> ""]

\* re.sub(r"^\s*([A-Za-z0-9_.:-]+)", src_safe, line, count=1)
SubSource(line, src_safe) ==
    LET a == RunEnd(line, 1, Whitespace)
        b == RunEnd(line, a, RawIdChars)
    IN  IF b > a THEN src_safe \o SubSeq(line, b, Len(line)) ELSE line

\* re.sub(r"([-\.]+>\s*)([A-Za-z0-9_.:-]+)", r"\1" + dst_safe, line, count=1)
SubTarget(line, dst_safe) ==
    LET IdStart(i) == RunEnd(line, RunEnd(line, i, ArrowChars) + 1, Whitespace)
        matches == {i \in 1..Len(line) :
                        /\ CharAt(line, i) \in ArrowChars
                        /\ IsAt(line, RunEnd(line, i, ArrowChars), ">")
                        /\ RunEnd(line, IdStart(i), RawIdChars) > IdStart(i)}
    IN  IF matches = {} THEN line
        ELSE LET i == CHOOSE j \in matches : \A k \in matches : j <= k
             IN  SubSeq(line, 1, IdStart(i) - 1) \o dst_safe
                    \o SubSeq(line, RunEnd(line, IdStart(i), RawIdChars), Len(line))

\* one of the two substitutions of quote_node_labels:
\* re.sub(r'^(\s*[A-Za-z0-9_]+)\s*(\[\s*)(.*?)(\s*\])', repl, line), and the
\* same with round brackets
QuoteLabel(line, openb, closeb) ==
    LET a == RunEnd(line, 1, Whitespace)
        b == RunEnd(line, a, SafeChars)
        c == RunEnd(line, b, Whitespace)
        d == RunEnd(line, c + 1, Whitespace)
        ends == {n \in d..Len(line) : IsAt(line, RunEnd(line, n, Whitespace), closeb)}
    IN  IF b > a /\ IsAt(line, c, openb) /\ ends # {}
        THEN LET n == CHOOSE j \in ends : \A k \in ends : j <= k
                 k == RunEnd(line, n, Whitespace)
                 content == SubSeq(line, d, n - 1)
                 stripped == Strip(content)
                 quoted ==
                    /\ Len(stripped) >= 2
                    /\ \/ CharAt(stripped, 1) = "\"" /\ CharAt(stripped, Len(stripped)) = "\""
                       \/ CharAt(stripped, 1) = "'" /\ CharAt(stripped, Len(stripped)) = "'"
             IN  SubSeq(line, 1, b - 1) \o SubSeq(line, c, d - 1)
                    \o (IF quoted THEN content
                        ELSE "\"" \o Replace(stripped, "\"", "\\\"") \o "\"")
                    \o SubSeq(line, n, k) \o SubSeq(line, k + 1, Len(line))
        ELSE line

quote_node_labels(line) == QuoteLabel(QuoteLabel(line, "[", "]"), "(", ")")

\* the body of the loop over the lines: the line written out, and id_map and
\* used_ids after it
NormalizeLine(ids, line) ==
    LET m == NodeMatch(line)
        node == IF m.ok THEN unique_id(ids, m.raw) ELSE [ids |-> ids, sid |-> ""]
        line1 == IF m.ok
                 THEN ReplaceFirst(line, m.raw \o m.bracket, node.sid \o m.bracket)
                 ELSE line
        m2 == EdgeMatch(line1)
        src == IF m2.ok THEN unique_id(node.ids, m2.src_raw) ELSE [ids |-> node.ids, sid |-> ""]
        dst == IF m2.ok THEN unique_id(src.ids, m2.dst_raw) ELSE [ids |-> src.ids, sid |-> ""]
        line2 == IF m2.ok THEN SubTarget(SubSource(line1, src.sid), dst.sid) ELSE line1
    IN  [ids |-> dst.ids, line |-> quote_node_labels(line2)]

RECURSIVE NormalizeLines(_, _)
\* the loop over the lines
NormalizeLines(ids, lines) ==
    IF Len(lines) = 0 THEN <<>>
    ELSE LET first == NormalizeLine(ids, Head(lines))
         IN  <<first.line>> \o NormalizeLines(first.ids, Tail(lines))

normalize_mermaid_block(block) ==
    JoinLines(NormalizeLines(NoIds, SplitLines(SubDirective(block, 1))))

\* the block of one fence is normalized
NormalizeBlock ==
    /\ fixed = PyNone
    /\ fixed' = PyStr(normalize_mermaid_block(fence_block))
    /\ UNCHANGED fence_block

\* the direction tokens of Mermaid
DirectionTokens == {"TB", "TD", "BT", "LR", "RL"}

\* the directive lines: indented or not, after an empty line or not, the
\* older keyword or the current one, a blank or a tab before the direction,
\* closed by a semicolon or not
DirectiveLines ==
    {lead \o keyword \o gap \o direction \o close :
        lead \in {"", "    ", "\n"}, keyword \in {"graph", "flowchart"},
        gap \in {" ", "\t"}, direction \in DirectionTokens, close \in {"", ";"}}

\* the lines under the directive: those of the sample diagram of the tests,
\* two identifiers that sanitize to one, an edge written without blanks, an
\* edge from a declaration to an identifier declared on another line, a
\* directive further down, an identifier that starts with a digit and has a
\* quoted label, and a label that holds a quote
BodyLines ==
    {"    A[Client] -->|HTTP Request| B(API Gateway)",
     "    B --> C{Load Balancer}",
     "    C --> D[Service 1]",
     "a.b --> a_b",
     "A-->B",
     "a.b[X] --> a:b",
     "  graph LR",
     "1st [\"One\"]",
     "a:b(say \"hi\")"}

RECURSIVE BlockOf(_, _)
\* the block of a directive line and the lines under it
BlockOf(directive, body) ==
    IF Len(body) = 0 THEN directive \o "\n"
    ELSE BlockOf(directive \o "\n" \o Head(body), Tail(body))

Blocks == {BlockOf(directive, body) : directive \in DirectiveLines, body \in SeqsUpTo(BodyLines, MaxBodyLines)}

SanitizeInit == fence_block \in Blocks /\ fixed = PyNone

SanitizeIdle == fence_block = "" /\ fixed = PyNone

(***************************************************************************)
(* flowscribe_utils.py: CostTracker                                        *)
(***************************************************************************)

\* the pricing of 'anthropic/claude-sonnet-4-20250514', dollars per million
\* tokens
InputPrice == 3
OutputPrice == 15

\* the divisor of calculate_cost, and the tokens of a sixteenth of it
Million == 1000000
TokenStep == Million \div 16

\* tokens / 1_000_000 on float, for the multiples of TokenStep: the quotient
\* is a number of sixteenths, which float holds exactly
PerMillion(tokens) ==
    LET sixteenths == tokens \div TokenStep
    IN  <<0, 0, 0, 1024 * (sixteenths % 16), sixteenths \div 16>>

\* x * price on float, for a price that is a small whole number
FTimes(x, price) == RoundToPrecision(SubSeq(ScaleDigits(x, price, 1, 0), 1, FloatDigits))

calculate_cost(input_tokens, output_tokens) ==
    FAdd(FTimes(PerMillion(input_tokens), InputPrice),
         FTimes(PerMillion(output_tokens), OutputPrice))

\* cost_override and meta when they are not given
NoOverride == FltAbsent
NoMeta == [k |-> "none", keys |-> {}, id |-> "", model |-> "", cost |-> FZero]

\* a meta dict of the given keys
MetaDict(keys, id, model, cost) ==
    [k |-> "dict", keys |-> keys, id |-> id, model |-> model, cost |-> cost]

\* CostTracker.__init__
NewTracker ==
    [total_cost |-> FZero, total_time |-> FZero, total_input_tokens |-> 0,
     total_output_tokens |-> 0, total_tokens |-> 0, calls |-> <<>>]

\* the tracker t after record_call(input_tokens, output_tokens, duration,
\* cost_override, meta) at the time now: the entry holds its own five keys,
\* and the keys of meta over them
record_call(t, now, input_tokens, output_tokens, duration, cost_override, meta) ==
    LET cost == IF cost_override.k = "num" THEN cost_override.n
                ELSE calculate_cost(input_tokens, output_tokens)
        entry == [timestamp |-> now, input_tokens |-> input_tokens,
                  output_tokens |-> output_tokens, cost |-> cost, duration |-> duration,
                  keys |-> {}, id |-> "", model |-> ""]
        updated == IF meta.k = "dict"
                   THEN [entry EXCEPT !.keys = meta.keys,
                                      !.id = IF "id" \in meta.keys THEN meta.id ELSE @,
                                      !.model = IF "model" \in meta.keys THEN meta.model ELSE @,
                                      !.cost = IF "cost" \in meta.keys THEN meta.cost ELSE @]
                   ELSE entry
    IN  [total_cost |-> FAdd(t.total_cost, cost),
         total_time |-> FAdd(t.total_time, duration),
         total_input_tokens |-> t.total_input_tokens + input_tokens,
         total_output_tokens |-> t.total_output_tokens + output_tokens,
         total_tokens |-> t.total_tokens + (input_tokens + output_tokens),
         calls |-> Append(t.calls, updated)]

\* get_summary: the totals and the number of calls
get_summary(t) ==
    [total_cost |-> t.total_cost, total_time |-> t.total_time,
     total_input_tokens |-> t.total_input_tokens,
     total_output_tokens |-> t.total_output_tokens,
     total_tokens |-> t.total_tokens, num_calls |-> Len(t.calls)]

\* tracker.record_call(...)
RecordCall(now, c) ==
    /\ invoked < MaxTrackerCalls
    /\ tracker' = record_call(tracker, now, c.input_tokens, c.output_tokens, c.duration,
                           c.cost_override, c.meta)
    /\ invoked' = invoked + 1
    /\ UNCHANGED returned

\* the arguments of one record_call
CallArgs(input_tokens, output_tokens, duration, cost_override, meta) ==
    [input_tokens |-> input_tokens, output_tokens |-> output_tokens,
     duration |-> duration, cost_override |-> cost_override, meta |-> meta]

\* the calls made on the tracker: the one the level 3 generator makes for its
\* load and parse time, calls priced by the tracker, calls with a cost given,
\* with the meta of a response, and with a meta that holds a cost
DirectCalls ==
    {CallArgs(0, 0, F_0_3, NoOverride, NoMeta),
     CallArgs(125000, 62500, F_2_5, NoOverride, NoMeta),
     CallArgs(62500, 125000, F_0_1, Flt(F_0_1), NoMeta),
     CallArgs(62500, 0, F_0_2, Flt(F_0_2),
              MetaDict({"id", "model"}, "test-123", "test-model", FZero)),
     CallArgs(125000, 0, F_0_1, NoOverride, MetaDict({"cost"}, "", "", F_20_0))}

\* the times of the clock
TrackerTimes == {"2025-01-01T00:00:00"}

(***************************************************************************)
(* flowscribe_utils.py: LLMClient.call                                     *)
(***************************************************************************)

\* a value of the usage mapping that is read with int(): the key is absent,
\* null, a whole number, or a text that is no number
TokAbsent == [k |-> "absent", n |-> 0]
TokNull == [k |-> "null", n |-> 0]
TokInt(n) == [k |-> "int", n |-> n]
TokText == [k |-> "str", n |-> 0]

\* usage.get('cost') when it is null
FltNull == [k |-> "null", n |-> FZero]

\* what requests.post and response.json() give: kind is "timeout",
\* "connection" (the request fails), "http_error" (raise_for_status raises),
\* "bad_json" (the body is no JSON) or "json"; of a JSON body, shape is
\* "dict" or "list", choices is "absent", "null", "empty" or "one" (a list of
\* one choice), message is "absent", "null" or "dict", content is a text or
\* None or absent, usage is "absent", "null", "list" or "dict"
Response(kind, shape, choices, message, content, usage, prompt_tokens, completion_tokens, cost) ==
    [kind |-> kind, shape |-> shape, choices |-> choices, message |-> message,
     content |-> content, usage |-> usage, prompt_tokens |-> prompt_tokens,
     completion_tokens |-> completion_tokens, cost |-> cost,
     id |-> "gen-1", model |-> "test-model"]

\* a request that gives no body
NoBody(kind) ==
    Response(kind, "dict", "absent", "absent", PyNone, "absent", TokAbsent, TokAbsent, FltAbsent)

\* a JSON object with one choice whose message holds a text
Body(content, usage, prompt_tokens, completion_tokens, cost) ==
    Response("json", "dict", "one", "dict", content, usage, prompt_tokens, completion_tokens, cost)

\* a JSON object of another form
OddBody(shape, choices, message, content, usage) ==
    Response("json", shape, choices, message, content, usage, TokAbsent, TokAbsent, FltAbsent)

\* no response yet
NoResponse == NoBody("none")

\* result.get('choices', [{}])[0].get('message', {}).get('content', ''): the
\* content, '' by default, None when the body holds null
ContentOf(resp) ==
    IF resp.choices = "absent" \/ resp.message = "absent" THEN PyStr("")
    ELSE resp.content

\* x.get(key, 0) or 0 of a usage that is a dict, {} when usage is absent or null
UsageValue(resp, v) == IF resp.usage = "dict" THEN v ELSE TokAbsent

\* the exception the try block of call raises, "" when it raises none: the
\* statements in their order, each with the exception Python raises on it
Raised(resp) ==
    IF resp.kind = "timeout" THEN "Timeout"
    ELSE IF resp.kind \in {"connection", "http_error", "bad_json"} THEN "RequestException"
    ELSE IF resp.shape = "list" THEN "AttributeError"
    ELSE IF resp.choices = "null" THEN "TypeError"
    ELSE IF resp.choices = "empty" THEN "IndexError"
    ELSE IF resp.choices = "one" /\ resp.message = "null" THEN "AttributeError"
    ELSE IF ContentOf(resp).k = "none" THEN "TypeError"
    ELSE IF resp.usage = "list" THEN "AttributeError"
    ELSE IF UsageValue(resp, resp.prompt_tokens).k = "str" THEN "ValueError"
    ELSE IF UsageValue(resp, resp.completion_tokens).k = "str" THEN "ValueError"
    ELSE ""

\* the except clauses of call
Caught == {"Timeout", "RequestException", "KeyError", "IndexError", "ValueError"}

\* what call gives back: nothing yet, None, the dict of a response, or an
\* exception that leaves call
NoReturn ==
    [outcome |-> "idle", resp |-> NoResponse, content |-> "", input_tokens |-> 0,
     output_tokens |-> 0, total_tokens |-> 0, cost |-> FZero]

\* LLMClient.call(prompt) when the request is answered with resp after
\* duration, at the time now; invoked counts the calls of record_call
Call(now, duration, resp) ==
    /\ invoked < MaxTrackerCalls
    /\ LET input_tokens == UsageValue(resp, resp.prompt_tokens).n
           output_tokens == UsageValue(resp, resp.completion_tokens).n
           cost_usd == IF resp.usage = "dict" /\ resp.cost.k = "num" THEN resp.cost.n ELSE FZero
       IN  IF Raised(resp) = ""
           THEN /\ tracker' = record_call(tracker, now, input_tokens, output_tokens, duration,
                                          Flt(cost_usd),
                                          MetaDict({"id", "model", "started_at", "finished_at"},
                                                   resp.id, resp.model, FZero))
                /\ invoked' = invoked + 1
                /\ returned' = [outcome |-> "dict", resp |-> resp,
                                content |-> ContentOf(resp).v,
                                input_tokens |-> input_tokens,
                                output_tokens |-> output_tokens,
                                total_tokens |-> input_tokens + output_tokens,
                                cost |-> IF cost_usd # FZero THEN cost_usd
                                         ELSE calculate_cost(input_tokens, output_tokens)]
           ELSE /\ UNCHANGED <<tracker, invoked>>
                /\ returned' = [NoReturn EXCEPT
                                    !.outcome = IF Raised(resp) \in Caught THEN "None" ELSE "raised",
                                    !.resp = resp]

\* the answers to a request: no answer in time, no connection, an error
\* status, a body that is no JSON; the body of the tests; bodies without
\* usage, with a null usage, without a cost, with null counts; and bodies of
\* another form
Responses ==
    {NoBody("timeout"), NoBody("connection"), NoBody("http_error"), NoBody("bad_json"),
     Body(PyStr("Test response"), "dict", TokInt(62500), TokInt(125000), Flt(F_0_125)),
     Body(PyStr("Test response"), "dict", TokInt(125000), TokInt(62500), FltAbsent),
     Body(PyStr("Test response"), "dict", TokNull, TokAbsent, FltNull),
     Body(PyStr(""), "absent", TokAbsent, TokAbsent, FltAbsent),
     Body(PyStr("Test response"), "null", TokAbsent, TokAbsent, FltAbsent),
     Body(PyStr("Test response"), "dict", TokText, TokInt(62500), Flt(F_0_125)),
     Body(PyStr("Test response"), "dict", TokInt(62500), TokText, Flt(F_0_125)),
     Body(PyNone, "dict", TokInt(62500), TokInt(125000), Flt(F_0_125)),
     Body(PyStr("Test response"), "list", TokAbsent, TokAbsent, FltAbsent),
     OddBody("list", "absent", "absent", PyNone, "absent"),
     OddBody("dict", "absent", "absent", PyNone, "absent"),
     OddBody("dict", "null", "absent", PyNone, "absent"),
     OddBody("dict", "empty", "absent", PyNone, "absent"),
     OddBody("dict", "one", "absent", PyNone, "absent"),
     OddBody("dict", "one", "null", PyNone, "absent")}

\* the seconds a request takes
Durations == {F_0_2}

TrackerInit == tracker = NewTracker /\ invoked = 0 /\ returned = NoReturn

TrackerIdle == tracker = NewTracker /\ invoked = 0 /\ returned = NoReturn

(***************************************************************************)
(* async_generator.py: AsyncC4Generator.generate_all_levels                *)
(***************************************************************************)

\* the levels that have a generator, in the order of the if statements
GeneratorLevels == <<1, 2, 3, 4>>

\* the most tasks one call starts
MaxTasks == Len(GeneratorLevels)

\* the levels a caller may name, one of them without a generator
AskedLevels == {1, 2, 3, 4, 5}

\* the return codes of a generator script
ReturnCodes == {0, 1}

\* the levels argument: None, or a list
NoLevels == [k |-> "none", v |-> <<>>]
LevelList(l) == [k |-> "list", v |-> l]

\* levels after "if levels is None: levels = [1, 2, 3, 4]"
LevelsOf(arg) == IF arg.k = "none" THEN GeneratorLevels ELSE arg.v

\* x in l
InList(x, l) == \E i \in 1..Len(l) : l[i] = x

\* the tasks list: one task for each of the levels 1 to 4 that is in levels,
\* in the order of the if statements
TasksOf(l) == SelectSeq(GeneratorLevels, LAMBDA n : InList(n, l))

\* what gather holds of a task: nothing yet, the dict the generator of the
\* level returns, or the exception it raised
PendingTask == [k |-> "pending", level |-> 0, returncode |-> 0]
ResultOf(level, returncode) == [k |-> "result", level |-> level, returncode |-> returncode]
ExceptionOf == [k |-> "exception", level |-> 0, returncode |-> 0]

\* str(result) of the exception of a task
ErrorText == "boom"

\* generate_all_levels up to the call of gather
StartTasks ==
    /\ gen_pc = "start"
    /\ tasks' = TasksOf(LevelsOf(levels_arg))
    /\ gathered' = [i \in 1..Len(TasksOf(LevelsOf(levels_arg))) |-> PendingTask]
    /\ gen_pc' = "gather"
    /\ UNCHANGED <<levels_arg, processed_results>>

\* the task at position i returns the dict of its level; the tasks end in
\* any order
TaskReturns(i, returncode) ==
    /\ gen_pc = "gather"
    /\ i \in 1..Len(tasks)
    /\ gathered[i].k = "pending"
    /\ gathered' = [gathered EXCEPT ![i] = ResultOf(tasks[i], returncode)]
    /\ UNCHANGED <<levels_arg, tasks, processed_results, gen_pc>>

\* the task at position i ends with an exception, which gather keeps
TaskRaises(i) ==
    /\ gen_pc = "gather"
    /\ i \in 1..Len(tasks)
    /\ gathered[i].k = "pending"
    /\ gathered' = [gathered EXCEPT ![i] = ExceptionOf]
    /\ UNCHANGED <<levels_arg, tasks, processed_results, gen_pc>>

\* the result at position i of gather as it is returned: an exception
\* becomes an error result whose level is levels[i], 0 past the end of levels
Processed(l, gather_results, i) ==
    IF gather_results[i].k = "exception"
    THEN [level |-> IF i <= Len(l) THEN l[i] ELSE 0, success |-> FALSE,
          stdout |-> "", stderr |-> ErrorText, returncode |-> 0 - 1]
    ELSE [level |-> gather_results[i].level, success |-> gather_results[i].returncode = 0,
          stdout |-> "", stderr |-> "", returncode |-> gather_results[i].returncode]

\* gather returns when every task has ended, and the results are converted
GatherReturns ==
    /\ gen_pc = "gather"
    /\ \A i \in 1..Len(tasks) : gathered[i].k # "pending"
    /\ processed_results' =
            [i \in 1..Len(gathered) |-> Processed(LevelsOf(levels_arg), gathered, i)]
    /\ gen_pc' = "done"
    /\ UNCHANGED <<levels_arg, tasks, gathered>>

\* the calls: without levels, and with every list of up to MaxLevels levels
AsyncInit ==
    /\ levels_arg \in {NoLevels} \cup {LevelList(l) : l \in SeqsUpTo(AskedLevels, MaxLevels)}
    /\ tasks = <<>>
    /\ gathered = <<>>
    /\ processed_results = <<>>
    /\ gen_pc = "start"

\* no call of generate_all_levels
AsyncIdle ==
    /\ levels_arg = NoLevels
    /\ tasks = <<>>
    /\ gathered = <<>>
    /\ processed_results = <<>>
    /\ gen_pc = "idle"

(***************************************************************************)
(* Specifications                                                          *)
(***************************************************************************)

vars ==
    <<varsSafeId, varsRegistry, varsLoad, varsL3, varsRender, varsMetrics, varsSanitize, varsTracker, varsAsync>>

InitSafeId ==
    sid_in \in SafeIdInputs /\ sid_out = Pending /\ RegistryInit /\ LoadIdle /\ L3Idle
        /\ RenderIdle /\ MetricsIdle /\ SanitizeIdle /\ TrackerIdle /\ AsyncIdle
NextSafeId == CallSafeId /\ UNCHANGED <<varsRegistry, varsLoad, varsL3, varsRender, varsMetrics, varsSanitize, varsTracker, varsAsync>>
SpecSafeId == InitSafeId /\ [][NextSafeId]_vars

InitRegistry ==
    RegistryInit /\ SafeIdIdle /\ LoadIdle /\ L3Idle /\ RenderIdle /\ MetricsIdle
        /\ SanitizeIdle /\ TrackerIdle /\ AsyncIdle
NextRegistry ==
    \/ (\E name \in RegistryNames : Uid(name))
            /\ UNCHANGED <<varsSafeId, varsLoad, varsL3, varsRender, varsMetrics, varsSanitize, varsTracker, varsAsync>>
    \/ Reset /\ UNCHANGED <<varsSafeId, varsLoad, varsL3, varsRender, varsMetrics, varsSanitize, varsTracker, varsAsync>>
SpecRegistry == InitRegistry /\ [][NextRegistry]_vars

InitLoad ==
    LoadInit /\ SafeIdIdle /\ RegistryInit /\ L3Idle /\ RenderIdle /\ MetricsIdle
        /\ SanitizeIdle /\ TrackerIdle /\ AsyncIdle
NextLoad ==
    \/ (\E v \in ViolationEntries : LoadViolationEntry(v))
            /\ UNCHANGED <<varsSafeId, varsRegistry, varsL3, varsRender, varsMetrics, varsSanitize, varsTracker, varsAsync>>
    \/ EndViolations /\ UNCHANGED <<varsSafeId, varsRegistry, varsL3, varsRender, varsMetrics, varsSanitize, varsTracker, varsAsync>>
    \/ (\E file \in ReportFiles, m \in FileMessages : LoadFileMessage(file, m))
            /\ UNCHANGED <<varsSafeId, varsRegistry, varsL3, varsRender, varsMetrics, varsSanitize, varsTracker, varsAsync>>
    \/ FinishLoad /\ UNCHANGED <<varsSafeId, varsRegistry, varsL3, varsRender, varsMetrics, varsSanitize, varsTracker, varsAsync>>
SpecLoad == InitLoad /\ [][NextLoad]_vars

InitL3 ==
    L3Init /\ SafeIdIdle /\ RegistryInit /\ LoadIdle /\ RenderIdle /\ MetricsIdle
        /\ SanitizeIdle /\ TrackerIdle /\ AsyncIdle
NextL3 ==
    \/ L3Start /\ UNCHANGED <<varsSafeId, varsRegistry, varsLoad, varsRender, varsMetrics, varsSanitize, varsTracker, varsAsync>>
    \/ ScanLayer /\ UNCHANGED <<varsSafeId, varsRegistry, varsLoad, varsRender, varsMetrics, varsSanitize, varsTracker, varsAsync>>
    \/ ScanDone /\ UNCHANGED <<varsSafeId, varsRegistry, varsLoad, varsRender, varsMetrics, varsSanitize, varsTracker, varsAsync>>
    \/ HarvestMessage /\ UNCHANGED <<varsSafeId, varsRegistry, varsLoad, varsRender, varsMetrics, varsSanitize, varsTracker, varsAsync>>
    \/ HarvestDone /\ UNCHANGED <<varsSafeId, varsRegistry, varsLoad, varsRender, varsMetrics, varsSanitize, varsTracker, varsAsync>>
    \/ FallbackMessage /\ UNCHANGED <<varsSafeId, varsRegistry, varsLoad, varsRender, varsMetrics, varsSanitize, varsTracker, varsAsync>>
    \/ FallbackDone /\ UNCHANGED <<varsSafeId, varsRegistry, varsLoad, varsRender, varsMetrics, varsSanitize, varsTracker, varsAsync>>
SpecL3 == InitL3 /\ [][NextL3]_vars

InitRender ==
    RenderInit /\ SafeIdIdle /\ RegistryInit /\ LoadIdle /\ MetricsIdle /\ SanitizeIdle /\ TrackerIdle /\ AsyncIdle
NextRender ==
    \/ RenderDiagram /\ UNCHANGED <<varsSafeId, varsRegistry, varsLoad, varsMetrics, varsSanitize, varsTracker, varsAsync>>
    \/ RenderOverview /\ UNCHANGED <<varsSafeId, varsRegistry, varsLoad, varsMetrics, varsSanitize, varsTracker, varsAsync>>
SpecRender == InitRender /\ [][NextRender]_vars

\* a batch of calls on one generator
InitBatch ==
    BatchInit /\ SafeIdIdle /\ RegistryInit /\ LoadIdle /\ MetricsIdle /\ SanitizeIdle /\ TrackerIdle /\ AsyncIdle
NextBatch ==
    \/ (\E layer_name \in BatchLayers : Len(results) < MaxBatch /\ BatchDiagram(layer_name))
            /\ UNCHANGED <<varsSafeId, varsRegistry, varsLoad, varsMetrics, varsSanitize, varsTracker, varsAsync>>
    \/ (\E layer_name \in BatchLayers :
            Len(results) < MaxBatch /\ BatchComponentList(layer_name))
            /\ UNCHANGED <<varsSafeId, varsRegistry, varsLoad, varsMetrics, varsSanitize, varsTracker, varsAsync>>
    \/ (\E layer_name \in BatchLayers, now \in Timestamps :
            Len(results) < MaxBatch /\ BatchMarkdown(layer_name, now))
            /\ UNCHANGED <<varsSafeId, varsRegistry, varsLoad, varsMetrics, varsSanitize, varsTracker, varsAsync>>
SpecBatch == InitBatch /\ [][NextBatch]_vars

\* the renderers on names that are alike
InitAlike ==
    AlikeInit /\ SafeIdIdle /\ RegistryInit /\ LoadIdle /\ MetricsIdle /\ SanitizeIdle
        /\ TrackerIdle /\ AsyncIdle
NextAlike ==
    \/ RenderDiagram
            /\ UNCHANGED <<varsSafeId, varsRegistry, varsLoad, varsMetrics, varsSanitize,
                           varsTracker, varsAsync>>
    \/ RenderOverview
            /\ UNCHANGED <<varsSafeId, varsRegistry, varsLoad, varsMetrics, varsSanitize,
                           varsTracker, varsAsync>>
SpecAlike == InitAlike /\ [][NextAlike]_vars

\* generate_layer_component_diagram on a large report
InitManyEdges ==
    ManyEdgesInit /\ SafeIdIdle /\ RegistryInit /\ LoadIdle /\ MetricsIdle /\ SanitizeIdle /\ TrackerIdle /\ AsyncIdle
NextManyEdges == RenderDiagram /\ UNCHANGED <<varsSafeId, varsRegistry, varsLoad, varsMetrics, varsSanitize, varsTracker, varsAsync>>
SpecManyEdges == InitManyEdges /\ [][NextManyEdges]_vars

InitMetrics ==
    MetricsInit /\ SafeIdIdle /\ RegistryInit /\ LoadIdle /\ L3Idle /\ RenderIdle
        /\ SanitizeIdle /\ TrackerIdle /\ AsyncIdle
NextMetrics ==
    \/ (\E obj \in MetricsDocs : Len(docs) < MaxDocs /\ ReadDoc(obj))
            /\ UNCHANGED <<varsSafeId, varsRegistry, varsLoad, varsL3, varsRender, varsSanitize, varsTracker, varsAsync>>
    \/ FinishMetrics /\ UNCHANGED <<varsSafeId, varsRegistry, varsLoad, varsL3, varsRender, varsSanitize, varsTracker, varsAsync>>
SpecMetrics == InitMetrics /\ [][NextMetrics]_vars

\* read_all_metrics over documents of the older shape
NextLegacy ==
    \/ (\E obj \in LegacyDocs : Len(docs) < MaxLegacyDocs /\ ReadDoc(obj))
            /\ UNCHANGED <<varsSafeId, varsRegistry, varsLoad, varsL3, varsRender, varsSanitize, varsTracker, varsAsync>>
    \/ FinishMetrics /\ UNCHANGED <<varsSafeId, varsRegistry, varsLoad, varsL3, varsRender, varsSanitize, varsTracker, varsAsync>>
SpecLegacy == InitMetrics /\ [][NextLegacy]_vars

\* generate_master_index: read_all_metrics, then the legend
NextIndex ==
    \/ (\E obj \in IndexDocs : Len(docs) < MaxIndexDocs /\ ReadDoc(obj))
            /\ UNCHANGED <<varsSafeId, varsRegistry, varsLoad, varsL3, varsRender, varsSanitize, varsTracker, varsAsync>>
    \/ FinishMetrics /\ UNCHANGED <<varsSafeId, varsRegistry, varsLoad, varsL3, varsRender, varsSanitize, varsTracker, varsAsync>>
    \/ WriteLegend /\ UNCHANGED <<varsSafeId, varsRegistry, varsLoad, varsL3, varsRender, varsSanitize, varsTracker, varsAsync>>
SpecIndex == InitMetrics /\ [][NextIndex]_vars

\* normalize_mermaid_block on the block of one fence
InitSanitize ==
    SanitizeInit /\ SafeIdIdle /\ RegistryInit /\ LoadIdle /\ L3Idle /\ RenderIdle
        /\ MetricsIdle /\ TrackerIdle /\ AsyncIdle
NextSanitize ==
    NormalizeBlock
        /\ UNCHANGED <<varsSafeId, varsRegistry, varsLoad, varsL3, varsRender, varsMetrics,
                       varsTracker, varsAsync>>
SpecSanitize == InitSanitize /\ [][NextSanitize]_vars

\* calls on one CostTracker
InitTracker ==
    TrackerInit /\ SafeIdIdle /\ RegistryInit /\ LoadIdle /\ L3Idle /\ RenderIdle
        /\ MetricsIdle /\ SanitizeIdle /\ AsyncIdle
NextTracker ==
    \/ (\E now \in TrackerTimes, c \in DirectCalls : RecordCall(now, c))
            /\ UNCHANGED <<varsSafeId, varsRegistry, varsLoad, varsL3, varsRender, varsMetrics,
                           varsSanitize, varsAsync>>
    \/ (\E now \in TrackerTimes, duration \in Durations, resp \in Responses :
            Call(now, duration, resp))
            /\ UNCHANGED <<varsSafeId, varsRegistry, varsLoad, varsL3, varsRender, varsMetrics,
                           varsSanitize, varsAsync>>
SpecTracker == InitTracker /\ [][NextTracker]_vars

\* generate_all_levels on a list of levels
InitAsync ==
    AsyncInit /\ SafeIdIdle /\ RegistryInit /\ LoadIdle /\ L3Idle /\ RenderIdle
        /\ MetricsIdle /\ SanitizeIdle /\ TrackerIdle
NextAsync ==
    \/ StartTasks
            /\ UNCHANGED <<varsSafeId, varsRegistry, varsLoad, varsL3, varsRender, varsMetrics,
                           varsSanitize, varsTracker>>
    \/ (\E i \in 1..MaxTasks, returncode \in ReturnCodes : TaskReturns(i, returncode))
            /\ UNCHANGED <<varsSafeId, varsRegistry, varsLoad, varsL3, varsRender, varsMetrics,
                           varsSanitize, varsTracker>>
    \/ (\E i \in 1..MaxTasks : TaskRaises(i))
            /\ UNCHANGED <<varsSafeId, varsRegistry, varsLoad, varsL3, varsRender, varsMetrics,
                           varsSanitize, varsTracker>>
    \/ GatherReturns
            /\ UNCHANGED <<varsSafeId, varsRegistry, varsLoad, varsL3, varsRender, varsMetrics,
                           varsSanitize, varsTracker>>
SpecAsync == InitAsync /\ [][NextAsync]_vars

(***************************************************************************)
(* Properties                                                              *)
(***************************************************************************)

\* the position of the last "(" of s, 0 when s has none
LastOpen(s) ==
    IF \E i \in 1..Len(s) : CharAt(s, i) = "("
    THEN CHOOSE i \in 1..Len(s) :
            CharAt(s, i) = "(" /\ \A j \in (i + 1)..Len(s) : CharAt(s, j) # "("
    ELSE 0

\* the position after the last character of s that is not ")"
BeforeClosers(s) ==
    IF \E i \in 1..Len(s) : CharAt(s, i) # ")"
    THEN CHOOSE i \in 1..Len(s) :
            CharAt(s, i) # ")" /\ \A j \in (i + 1)..Len(s) : CharAt(s, j) = ")"
    ELSE 0

\* the text between the last "(" of s and the ")" that end s
PairInner(s) == SubSeq(s, LastOpen(s) + 1, BeforeClosers(s))

\* where the first " on " of s starts, 0 when s has none
FirstOn(s) ==
    IF \E i \in 1..Len(s) : StartsAt(s, " on ", i)
    THEN CHOOSE i \in 1..Len(s) :
            StartsAt(s, " on ", i) /\ \A j \in 1..(i - 1) : ~StartsAt(s, " on ", j)
    ELSE 0

\* s ends in a parenthesized pair "(X on Y)"
EndsInPair(s) ==
    /\ Len(s) > 0
    /\ CharAt(s, Len(s)) = ")"
    /\ LastOpen(s) > 0
    /\ FirstOn(PairInner(s)) > 0

\* the X and the Y of a text that ends in "(X on Y)"
PairX(s) == SubSeq(PairInner(s), 1, FirstOn(PairInner(s)) - 1)
PairY(s) == SubSeq(PairInner(s), FirstOn(PairInner(s)) + 4, Len(PairInner(s)))

\* a files-shape entry without explicit dependency layers
NoExplicitLayers(e) ==
    e.shape = "files" /\ ~Truthy(e.m.dep_from) /\ ~Truthy(e.m.dep_to)

\* a files-shape entry without explicit layers whose text ends in "(X on Y)"
PairMessage(e) ==
    NoExplicitLayers(e) /\ e.m.message.k = "str" /\ EndsInPair(e.m.message.v)

\* C1 (as claimed): a files-shape message without explicit dependency layers
\* whose text ends in "(X on Y)" is recorded with from_layer = X stripped and
\* to_layer = Y stripped, the pair being the text after the last "(".
C1_PairAsClaimed ==
    \A i \in 1..Len(loaded) :
        PairMessage(loaded[i]) =>
            /\ violations[i].from_layer = Strip(PairX(loaded[i].m.message.v))
            /\ violations[i].to_layer = Strip(PairY(loaded[i].m.message.v))

\* a layer name as recorded: "Unknown" stands for the empty name
Recorded(name) == IF name = "" THEN "Unknown" ELSE name

\* C1 (amended): such a message is recorded with from_layer = X stripped and
\* to_layer = Y stripped, X being the text between the last "(" and the first
\* " on " after it and Y the text from there to the ")" that end the message;
\* a side that is empty after the strip is recorded as "Unknown".
C1_PairOrUnknown ==
    \A i \in 1..Len(loaded) :
        PairMessage(loaded[i]) =>
            /\ violations[i].from_layer = Recorded(Strip(PairX(loaded[i].m.message.v)))
            /\ violations[i].to_layer = Recorded(Strip(PairY(loaded[i].m.message.v)))

\* C1 witness: a padded pair was recorded stripped, and after it a pair with
\* an empty left side
C1_Witness ==
    /\ Len(loaded) = 2
    /\ loaded[1] = [shape |-> "files", file |-> "Foo.php",
          m |-> FileMessage(PyStr("Foo must not depend on App\\Bar ( Presentation \t on  Domain )"),
                            PyNone, PyNone)]
    /\ violations[1].from_layer = "Presentation"
    /\ violations[1].to_layer = "Domain"
    /\ PairMessage(loaded[2])
    /\ Strip(PairX(loaded[2].m.message.v)) = ""
    /\ violations[2].from_layer = "Unknown"
    /\ violations[2].to_layer = "Domain"

\* an entry from which no layer pair can be recognized: no explicit layer,
\* and (files shape) no text, no "(" in it, or no " on " after its last "("
NoPairRecognizable(e) ==
    IF e.shape = "violations"
    THEN ~Truthy(e.v.depender_layer) /\ ~Truthy(e.v.dependent_layer)
    ELSE /\ NoExplicitLayers(e)
         /\ \/ e.m.message.k = "none"
            \/ LastOpen(e.m.message.v) = 0
            \/ FirstOn(SubSeq(e.m.message.v, LastOpen(e.m.message.v) + 1,
                              Len(e.m.message.v))) = 0

RawOf(x) == IF x.k = "none" THEN "" ELSE x.v

\* C8: for every input (a string, '' or None) mermaid_safe_id returns a
\* non-empty id over [A-Za-z0-9_] that does not start with a digit; it is the
\* input with each character outside the class replaced by "_", prefixed
\* with "n_" exactly when that would be empty or start with a digit.
C8_SafeIdShape ==
    sid_out.k = "str" =>
        LET raw == RawOf(sid_in)
            r == sid_out.v
            prefixed == raw = "" \/ CharAt(raw, 1) \in Digits
            off == IF prefixed THEN 2 ELSE 0
        IN  /\ r # ""
            /\ \A i \in 1..Len(r) : CharAt(r, i) \in SafeChars
            /\ CharAt(r, 1) \notin Digits
            /\ Len(r) = Len(raw) + off
            /\ prefixed => SubSeq(r, 1, 2) = "n_"
            /\ \A i \in 1..Len(raw) :
                  CharAt(r, off + i) =
                      IF CharAt(raw, i) \in SafeChars THEN CharAt(raw, i) ELSE "_"

\* C8 witness: an input that starts with a digit and holds an unsafe character
C8_Witness == sid_in = PyStr("7-a") /\ sid_out = PyStr("n_7_a")

\* C6 (as claimed): two distinct names with the same sanitized id never get
\* the same id from one registry without a reset in between.
C6_CollisionLaw ==
    \A i, j \in 1..Len(calls) :
        (/\ calls[i].name # calls[j].name
         /\ mermaid_safe_id(calls[i].name) = mermaid_safe_id(calls[j].name))
            => calls[i].id # calls[j].id

\* C7 (as claimed): all ids one registry returns without a reset in between
\* are pairwise distinct, repeated names included.
C7_IdsPairwiseDistinct ==
    \A i, j \in 1..Len(calls) : i # j => calls[i].id # calls[j].id

(***************************************************************************)
(* The component catalog and the component edges                           *)
(***************************************************************************)

\* the stem of a file: its last path segment without its last extension
Stem(path) ==
    LET name == Last(Split(path, "/"))
        parts == Split(name, ".")
    IN  IF Len(parts) = 1 \/ (Len(parts) = 2 /\ parts[1] = "") THEN name
        ELSE SubSeq(name, 1, Len(name) - Len(Last(parts)) - 1)

\* the text between "depend on" and the next "(", without the namespace
TargetOf(msg) ==
    LET rest == SubSeq(msg, Find(msg, "depend on", 1) + 9, Len(msg))
        q == Find(rest, "(", 1)
        text == Strip(SubSeq(rest, 1, IF q = 0 THEN Len(rest) ELSE q - 1))
    IN  Last(Split(text, "\\"))

\* a message that contains "depend on" and a parenthesized layer pair
Qualifies(e) ==
    /\ e.message.k = "str"
    /\ Contains(e.message.v, "depend on")
    /\ Contains(e.message.v, "(")
    /\ Contains(LayerPart(e.message.v), " on ")

\* the qualifying messages of the report, in report order
QualifyingEntries == SelectSeq(report.entries, Qualifies)

\* one edge per qualifying message, in report order, from the k-th of sources
\* to the target of the k-th message
EdgePerMessage(sources) ==
    /\ Len(component_dependencies) = Len(QualifyingEntries)
    /\ \A k \in 1..Len(QualifyingEntries) :
          /\ component_dependencies[k].from = sources[k]
          /\ component_dependencies[k].to = TargetOf(QualifyingEntries[k].message.v)

\* C3: once the generator is built, the component-edge list holds exactly one
\* entry per report message that contains "depend on" and a parenthesized
\* layer pair, in report order and without deduplication; its source is the
\* stem of the message's file, its target the text between "depend on" and
\* the next "(" after the last namespace separator.
C3_EdgePerMessageFromStem ==
    l3_pc = "done" =>
        EdgePerMessage([k \in 1..Len(QualifyingEntries) |-> Stem(QualifyingEntries[k].file)])

\* What C3 says with the source being what _extract_component_name makes of
\* the file: the last path segment without every ".php".
C3_EdgePerMessageFromName ==
    l3_pc = "done" =>
        EdgePerMessage([k \in 1..Len(QualifyingEntries) |->
                            extract_component_name(QualifyingEntries[k].file)])

\* C4: building the component catalog never raises past the builder, whatever
\* the configuration and the report are.
C4_BuilderNeverRaises == l3_pc # "raised"

\* a component none of whose files the report mentions
TriggeredNoViolation(component) ==
    \A k \in 1..Len(Listing), i \in 1..Len(report.entries) :
        extract_component_name(Listing[k].path) = component
            => report.entries[i].file # Listing[k].path

\* C5: after the filesystem scan, a component whose file matched a collector
\* but triggered no violation has an empty occurrence list and a violation
\* count of zero.
C5_CleanComponentHasNoOccurrence ==
    (l3_pc = "done" /\ ~fell_back) =>
        \A layer \in DOMAIN layer_components.val :
            \A component \in DOMAIN layer_components.val[layer].val :
                TriggeredNoViolation(component) =>
                    /\ layer_components.val[layer].val[component] = <<>>
                    /\ ViolationCount(layer_components, layer, component) = 0

(***************************************************************************)
(* Rendering                                                               *)
(***************************************************************************)

\* the runs of a renderer gave the same text
AllEqual(texts) == \A i, j \in 1..Len(texts) : texts[i] = texts[j]

\* C9: rendering is deterministic: for the same catalog and the same edge
\* list, two runs of the layer component diagram renderer produce the same
\* text, and so do two runs of the layered overview renderer.
C9_RenderingDeterministic == AllEqual(diagrams) /\ AllEqual(overviews)

\* The part of C9 about the layered overview.
C9_OverviewDeterministic == AllEqual(overviews)

\* The part of C9 about the layer component diagram, when at most one other
\* layer is depended on.
C9_DiagramDeterministicUpToOneExternal ==
    Cardinality(ExternalLayers(component_dependencies, layer_arg)) <= 1 => AllEqual(diagrams)

(***************************************************************************)
(* Metrics documents: canonical or legacy                                  *)
(***************************************************************************)

\* the shape the canonical schema is said to have: version exactly "1.0",
\* a levels mapping and a totals mapping
CanonicalAsStated(obj) ==
    /\ obj.kind = "dict"
    /\ obj.version = VerStr("1.0")
    /\ obj.levels.k = "dict"
    /\ obj.totals.k = "dict"

\* C10, as stated and read for the documents that are mappings with at least
\* one key: a document is handled as canonical only if its version is
\* exactly "1.0" and it has a levels mapping and a totals mapping, and every
\* other document is handled by the legacy extraction.
C10_CanonicalAsStated ==
    \A i \in 1..Len(docs) :
        (docs[i].kind = "dict" /\ ~docs[i].empty) =>
            /\ handled[i] = "canonical" => CanonicalAsStated(docs[i])
            /\ ~CanonicalAsStated(docs[i]) => handled[i] = "legacy"

\* a version that reads as 1.0: the text "1.0" inside white space, or the
\* number 1.0
ReadsOnePointZero(v) ==
    \/ v.k = "str" /\ Strip(v.s) = "1.0"
    \/ v.k = "float" /\ v.whole = 1 /\ v.tenths = 0

\* a mapping with at least one key
NonEmptyMapping(obj) == obj.kind = "dict" /\ ~obj.empty

\* the shape read_all_metrics takes for canonical
CanonicalAsRead(obj) ==
    /\ NonEmptyMapping(obj)
    /\ ReadsOnePointZero(obj.version)
    /\ obj.levels.k \in {"absent", "dict"}
    /\ obj.totals.k \in {"absent", "dict"}

\* the stage a legacy document is counted under
LegacyStage(obj) ==
    IF Truthy(obj.level) THEN obj.level.v
    ELSE IF Truthy(obj.stage) THEN obj.stage.v
    ELSE IF Truthy(obj.phase) THEN obj.phase.v
    ELSE "legacy"

\* the stages a document handled as canonical is counted under
CanonicalStages(obj) ==
    {name \in DOMAIN GetOrEmpty(obj.levels).d.val : GetOrEmpty(obj.levels).d.val[name].k = "dict"}

\* C10: a non-empty mapping document is handled as canonical exactly if its
\* version reads as 1.0 (the text "1.0", white space around it ignored, or
\* the number 1.0) and each of levels and totals is absent or a mapping;
\* every other non-empty mapping document is handled by the legacy
\* extraction; an empty document and a document that is no mapping are
\* skipped.  The stages counted are those of the extraction that handled
\* each document.
C10_CanonicalDetection ==
    /\ \A i \in 1..Len(docs) :
          /\ handled[i] = "canonical" <=> CanonicalAsRead(docs[i])
          /\ handled[i] = "legacy" <=> (NonEmptyMapping(docs[i]) /\ ~CanonicalAsRead(docs[i]))
          /\ handled[i] = "skipped" <=> ~NonEmptyMapping(docs[i])
    /\ DOMAIN stages.val =
          UNION {IF handled[i] = "canonical" THEN CanonicalStages(docs[i])
                 ELSE IF handled[i] = "legacy" THEN {LegacyStage(docs[i])}
                 ELSE {} : i \in 1..Len(docs)}

\* a document with the number 1.0 as version and neither levels nor totals
\* was handled as canonical, and after it a document with version "1.0" and
\* levels null was handled by the legacy extraction
C10_Witness ==
    /\ Len(docs) = 2
    /\ docs[1] = Doc(VerFloat(1, 0), MapAbsent, MapAbsent, FALSE)
    /\ handled[1] = "canonical"
    /\ docs[2] = Doc(VerStr("1.0"), MapNull, SomeTotals, TRUE)
    /\ handled[2] = "legacy"
    /\ DOMAIN stages.val = {"review"}

(***************************************************************************)
(* read_all_metrics: the order of the files                                *)
(***************************************************************************)

RECURSIVE TotalAfter(_, _)
\* the totals after the first k of the documents ds
TotalAfter(ds, k) == IF k = 0 THEN ZeroFigures ELSE MergedTotal(TotalAfter(ds, k - 1), ds[k])

RECURSIVE StagesAfter(_, _)
\* the stages after the first k of the documents ds
StagesAfter(ds, k) == IF k = 0 THEN EmptyDict ELSE MergedStages(StagesAfter(ds, k - 1), ds[k])

\* what read_all_metrics returns when the files hold the documents ds
Aggregate(ds) == SummaryOf(TotalAfter(ds, Len(ds)), StagesAfter(ds, Len(ds)))

\* the orders in which n files can be read
ReadOrders(n) == {p \in [1..n -> 1..n] : \A i, j \in 1..n : p[i] = p[j] => i = j}

\* ds read in the order p
Reordered(ds, p) == [i \in 1..Len(ds) |-> ds[p[i]]]

\* two summaries with the same totals and the same sums for every stage
SameSums(a, b) ==
    /\ a.total_cost = b.total_cost
    /\ a.total_time = b.total_time
    /\ a.total_tokens = b.total_tokens
    /\ {a.breakdown.keys[i] : i \in 1..Len(a.breakdown.keys)}
           = {b.breakdown.keys[i] : i \in 1..Len(b.breakdown.keys)}
    /\ \A i \in 1..Len(a.breakdown.keys) :
           a.breakdown.val[a.breakdown.keys[i]] = b.breakdown.val[a.breakdown.keys[i]]

\* C11: the grand totals and the per-stage sums of cost, time and tokens
\* that read_all_metrics returns are the same for every order in which the
\* same documents are read.
C11_OrderIndependent ==
    m_pc = "done" =>
        \A p \in ReadOrders(Len(docs)) : SameSums(summary, Aggregate(Reordered(docs, p)))

\* The token sums are the same for every order, and so is the set of stages.
C11_TokensOrderIndependent ==
    m_pc = "done" =>
        \A p \in ReadOrders(Len(docs)) :
            LET other == Aggregate(Reordered(docs, p))
            IN  /\ summary.total_tokens = other.total_tokens
                /\ \A i \in 1..Len(summary.breakdown.keys) :
                       LET lvl == summary.breakdown.keys[i]
                       IN  /\ DictHas(other.breakdown, lvl)
                           /\ summary.breakdown.val[lvl].tokens = other.breakdown.val[lvl].tokens

(***************************************************************************)
(* generate_master_index: the footnote on the total time                   *)
(***************************************************************************)

RECURSIVE TimeOfStages(_, _, _)
\* the sum of the durations of the first k stages of bucket that are in names
TimeOfStages(bucket, names, k) ==
    IF k = 0 THEN FZero
    ELSE IF bucket.keys[k] \in names
         THEN FAdd(TimeOfStages(bucket, names, k - 1), bucket.val[bucket.keys[k]].time)
         ELSE TimeOfStages(bucket, names, k - 1)

\* the sum of all per-stage durations, and the sum of those of the table
AllStagesTime == TimeOfStages(stages, {stages.keys[i] : i \in 1..Len(stages.keys)}, Len(stages.keys))
TableStagesTime ==
    TimeOfStages(stages, {"level1", "level2", "level3", "level4", "architecture_review"},
                 Len(stages.keys))

\* t and s differ by more than 5% of t: 20 * |t - s| > t
DifferByMoreThanFivePercent(t, s) ==
    LET diff == IF BigLess(t, s) THEN SubDigits(s, t, 1, 0) ELSE SubDigits(t, s, 1, 0)
    IN  BigLess(t, ScaleDigits(diff, 20, 1, 0))

\* t occurs in s
Occurs(s, t) == \E i \in 1..Len(s) : StartsAt(s, t, i)

HasFootnote == Occurs(legend, "_Footnote:")

\* the legend states the total t, the sum s and the signed delta t - s
FootnoteStates(t, s) ==
    /\ Occurs(legend, "Total time (" \o FormatTenths(t) \o "s)")
    /\ Occurs(legend, "durations sum to " \o FormatTenths(s) \o "s;")
    /\ Occurs(legend, "delta " \o (IF BigLess(t, s) THEN "-" ELSE "+")
                            \o FormatTenths(FAbsDiff(t, s)) \o "s._")

\* C12 as stated: the legend carries the footnote exactly if the total time
\* and the sum of all per-stage durations differ by more than 5% of the
\* total time, and the footnote states the total, that sum and the delta.
C12_FootnoteOnAllStages ==
    m_pc = "indexed" =>
        /\ HasFootnote <=> DifferByMoreThanFivePercent(summary.total_time, AllStagesTime)
        /\ HasFootnote => FootnoteStates(summary.total_time, AllStagesTime)

\* C12: the legend carries the footnote exactly if the total time T is not
\* zero and differs by more than 5% of T from the sum S of the durations of
\* the stages that have a row in the table (level1 to level4 and
\* architecture_review); the footnote states T, S and the signed delta T - S
\* with one decimal.
C12_FootnoteOnTableStages ==
    m_pc = "indexed" =>
        /\ HasFootnote <=>
              /\ summary.total_time # FZero
              /\ DifferByMoreThanFivePercent(summary.total_time, TableStagesTime)
        /\ HasFootnote => FootnoteStates(summary.total_time, TableStagesTime)

\* a footnote with a negative delta, and no footnote at exactly 5%
C12_Witness ==
    /\ m_pc = "indexed"
    /\ \/ HasFootnote /\ BigLess(summary.total_time, TableStagesTime)
       \/ ~HasFootnote /\ summary.total_time = F_20_0 /\ TableStagesTime = F_19_0

(***************************************************************************)
(* _extract_legacy: missing keys                                           *)
(***************************************************************************)

\* the document holds neither key of a cost, of a time, of a stage
NoCost(obj) == obj.total_cost.k = "absent" /\ obj.cost_usd.k = "absent"
NoTime(obj) == obj.total_time.k = "absent" /\ obj.duration_seconds.k = "absent"
NoHint(obj) == obj.level.k = "none" /\ obj.stage.k = "none" /\ obj.phase.k = "none"

\* the figures of a stage before it exists
StageOrZero(bucket, lvl) ==
    IF DictHas(bucket, lvl) THEN bucket.val[lvl]
    ELSE [cost |-> FZero, time |-> FZero, tokens_in |-> 0, tokens_out |-> 0, model |-> PyNone]

\* reading obj, a mapping with keys that is not canonical, left the totals
\* and the stage of obj unchanged in every figure obj does not hold, put obj
\* under "legacy" when it names no stage, and raised only on a token count
\* that is present
LegacyStepDefaults(obj) ==
    LET lvl == LegacyStage(obj)
        before == StageOrZero(stages, lvl)
    IN  /\ m_pc' = "raised" =>
              obj.input_tokens.k = "text" \/ obj.output_tokens.k = "text"
        /\ m_pc' # "raised" =>
              /\ handled'[Len(handled')] = "legacy"
              /\ DictHas(stages', lvl)
              /\ NoHint(obj) => lvl = "legacy"
              /\ NoCost(obj) =>
                    total'.cost = total.cost /\ stages'.val[lvl].cost = before.cost
              /\ NoTime(obj) =>
                    total'.time = total.time /\ stages'.val[lvl].time = before.time
              /\ obj.input_tokens.k = "absent" =>
                    /\ total'.tokens_in = total.tokens_in
                    /\ stages'.val[lvl].tokens_in = before.tokens_in
              /\ obj.output_tokens.k = "absent" =>
                    /\ total'.tokens_out = total.tokens_out
                    /\ stages'.val[lvl].tokens_out = before.tokens_out

\* C13: the legacy extraction never raises on a missing key; a cost, time
\* or token field that is absent contributes zero to the totals and to the
\* stage, and a document without level, stage and phase is recorded under
\* the stage "legacy".
C13_LegacyDefaults ==
    [][(m_pc = "reading" /\ Len(docs') = Len(docs) + 1) =>
          LegacyStepDefaults(docs'[Len(docs')])]_vars

\* a document with no cost, no time, no output tokens and no name of a
\* stage has been read after another one, and is under "legacy"
C13_Witness ==
    /\ m_pc = "reading"
    /\ Len(docs) >= 2
    /\ Len(handled) = Len(docs)
    /\ LET obj == docs[Len(docs)]
       IN  /\ NoCost(obj) /\ NoTime(obj) /\ NoHint(obj)
           /\ obj.output_tokens.k = "absent"
    /\ DictHas(stages, "legacy")
    /\ total.cost # FZero

(***************************************************************************)
(* read_all_metrics: the model of a stage                                  *)
(***************************************************************************)

\* the models the documents read so far gave for the stage lvl, in the order
\* read
ModelsSeen(lvl) ==
    LET given == SelectSeq([i \in 1..Len(handled) |-> docs[i]],
                           LAMBDA obj : LegacyStage(obj) = lvl)
    IN  [i \in 1..Len(given) |-> given[i].model]

\* the first of the models that is not null, and the first that is neither
\* null nor empty; None when there is none
FirstNonNull(models) ==
    LET found == SelectSeq(models, LAMBDA x : x.k # "none")
    IN  IF found = <<>> THEN PyNone ELSE found[1]
FirstNonEmpty(models) ==
    LET found == SelectSeq(models, LAMBDA x : Truthy(x))
    IN  IF found = <<>> THEN PyNone ELSE found[1]

\* C14 as stated: the model recorded for a stage is the first non-null
\* model seen for that stage.
C14_FirstNonNullModel ==
    \A i \in 1..Len(stages.keys) :
        stages.val[stages.keys[i]].model = FirstNonNull(ModelsSeen(stages.keys[i]))

\* C14: the model recorded for a stage is the first model seen for that
\* stage that is neither null nor the empty text, and None as long as there
\* has been none.
C14_FirstNonEmptyModel ==
    \A i \in 1..Len(stages.keys) :
        stages.val[stages.keys[i]].model = FirstNonEmpty(ModelsSeen(stages.keys[i]))

\* A model that is set is never changed by a later document.
C14_ModelNeverChanged ==
    [][\A i \in 1..Len(stages.keys) :
          Truthy(stages.val[stages.keys[i]].model) =>
              stages'.val[stages.keys[i]].model = stages.val[stages.keys[i]].model]_vars

\* a stage has its model from the second document that named it, after one
\* with an empty model, and a third document gave another model
C14_Witness ==
    /\ Len(handled) = 3
    /\ DictHas(stages, "level3")
    /\ LET models == ModelsSeen("level3")
       IN  /\ Len(models) = 3
           /\ models[1] = PyStr("") /\ models[2] = PyStr("model-a")
           /\ models[3] = PyStr("model-b")
    /\ stages.val["level3"].model = PyStr("model-a")

(***************************************************************************)
(* DeptracToC4Converter._load: the counter of layer-level edges            *)
(***************************************************************************)

\* the recorded violations from one layer to another
ViolationsOfPair(key) ==
    {i \in 1..Len(violations) : <<violations[i].from_layer, violations[i].to_layer>> = key}

RECURSIVE SumOver(_, _)
\* the sum of the counts of the keys in S
SumOver(counter, S) ==
    IF S = {} THEN 0
    ELSE LET key == CHOOSE x \in S : TRUE
         IN  counter[key] + SumOver(counter, S \ {key})

\* C15: one violation is recorded for every entry read, of either report
\* shape; the count of every (from_layer, to_layer) key is the number of
\* recorded violations with that pair, every violation's pair is a key, and
\* the counts sum to the number of violations.
C15_EdgeCountPerViolation ==
    /\ Len(violations) = Len(loaded)
    /\ \A key \in DOMAIN dependencies : dependencies[key] = Cardinality(ViolationsOfPair(key))
    /\ \A i \in 1..Len(violations) :
           <<violations[i].from_layer, violations[i].to_layer>> \in DOMAIN dependencies
    /\ SumOver(dependencies, DOMAIN dependencies) = Len(violations)

\* a report of both shapes has been loaded, with an entry of each shape
\* whose layers could not be resolved, counted twice under one key
C15_Witness ==
    /\ l2_pc = "done"
    /\ Len(loaded) = 2
    /\ loaded[1].shape = "violations" /\ loaded[2].shape = "files"
    /\ <<"Unknown", "Unknown">> \in DOMAIN dependencies
    /\ dependencies[<<"Unknown", "Unknown">>] = 2

(***************************************************************************)
(* generate_layer_component_diagram: the caps on the edges                 *)
(***************************************************************************)

\* how often t occurs in s
Occurrences(s, t) == Cardinality({i \in 1..Len(s) : StartsAt(s, t, i)})

\* the edges of the generator inside the layer asked for, and out of it
InternalCount ==
    Len(SelectSeq(component_dependencies,
                  LAMBDA dep : dep.from_layer = layer_arg /\ dep.to_layer = layer_arg))
ExternalCount ==
    Len(SelectSeq(component_dependencies,
                  LAMBDA dep : dep.from_layer = layer_arg /\ dep.to_layer # layer_arg))

\* text shows min(n, cap) edges with the given arrow, and one summary line
\* stating n - cap exactly if n > cap
CappedAsStated(text, n, cap, arrow, kind) ==
    /\ Occurrences(text, arrow) = IF n > cap THEN cap ELSE n
    /\ Occurrences(text, " more " \o kind \o " dependencies") = IF n > cap THEN 1 ELSE 0
    /\ n > cap =>
          Occurs(text, "\n    %% ... and " \o IntToStr(n - cap) \o " more " \o kind
                          \o " dependencies\n")

\* C16: every diagram shows at most 20 internal and at most 10 cross-layer
\* edges, each kind capped on its own, with exactly one summary line that
\* states the omitted count for a kind whose edges exceed its cap and none
\* for a kind whose edges do not.
C16_EdgeCaps ==
    \A i \in 1..Len(diagrams) :
        /\ CappedAsStated(diagrams[i], InternalCount, 20, " --> ", "internal")
        /\ CappedAsStated(diagrams[i], ExternalCount, 10, " -.-> ", "external")

\* a diagram of 21 internal edges and of no more than 10 external ones, or
\* of 12 external edges and of no more than 20 internal ones
C16_Witness ==
    /\ Len(diagrams) > 0
    /\ \/ InternalCount = 21 /\ ExternalCount \in 1..10
       \/ ExternalCount = 12 /\ InternalCount \in 1..20

(***************************************************************************)
(* C4Level3Generator: a layer that is not in the catalog                   *)
(***************************************************************************)

\* the result of a call for a layer that is not in the catalog says so
NotFoundResult(res) ==
    CASE res.op = "diagram" ->
            res.text = "*Layer '" \o res.layer \o "' not found in analysis*"
      [] res.op = "list" -> res.items = <<>> /\ res.text = ""
      [] res.op = "markdown" ->
            /\ StartsAt(res.text, "# Layer '" \o res.layer \o "' Not Found\n", 1)
            /\ Occurs(res.text, "*Please check the layer name and try again.*")

\* C17: every call of a batch for a layer that is absent from the catalog
\* returns its not-found result: the not-found text from the diagram and
\* from the markdown renderer, the empty list from the component lister;
\* and every call for a layer of the catalog returns something else.
C17_AbsentLayerNotFound ==
    \A i \in 1..Len(results) :
        NotFoundResult(results[i]) <=> ~DictHas(layer_components, results[i].layer)

\* a batch went on to a layer of the catalog after a layer that is absent
C17_Witness ==
    /\ Len(results) = 2
    /\ ~DictHas(layer_components, results[1].layer)
    /\ results[1].op = "markdown"
    /\ DictHas(layer_components, results[2].layer)
    /\ results[2].op = "list"
    /\ results[2].items # <<>>

(***************************************************************************)
(* _parse_components_from_filesystem: the files left out                   *)
(***************************************************************************)

\* the occurrences of the catalog
ScannedOccurrences ==
    UNION {UNION {{layer_components.val[layer].val[component][i] :
                      i \in 1..Len(layer_components.val[layer].val[component])} :
                  component \in DOMAIN layer_components.val[layer].val} :
           layer \in DOMAIN layer_components.val}

\* C18: while and after the file system is scanned, the catalog holds no
\* file whose path contains "vendor" or, in any case of letters, "test",
\* whichever type of collector matched it.
C18_ScanLeavesOutVendorAndTest ==
    (l3_pc \in {"scan", "harvest", "done"} /\ ~fell_back) =>
        \A occurrence \in ScannedOccurrences :
            /\ ~Contains(occurrence.file, "vendor")
            /\ ~Contains(Lower(occurrence.file), "test")

\* No file whose path contains "vendor" is in the catalog.
C18_ScanLeavesOutVendor ==
    (l3_pc \in {"scan", "harvest", "done"} /\ ~fell_back) =>
        \A occurrence \in ScannedOccurrences : ~Contains(occurrence.file, "vendor")

(***************************************************************************)
(* The catalog: one layer for every component                              *)
(***************************************************************************)

\* the layers under which the catalog lists the component of the file
LayersOfFile(file) ==
    {layer \in DOMAIN layer_components.val :
        \E component \in DOMAIN layer_components.val[layer].val :
            \E i \in 1..Len(layer_components.val[layer].val[component]) :
                layer_components.val[layer].val[component][i].file = file}

\* the files of the catalog
CatalogFiles ==
    {occurrence.file : occurrence \in ScannedOccurrences}

\* C19: after the catalog is built, by the scan of the file system or from
\* the violations, no source file has its component listed under two
\* different layers.
C19_OneLayerPerComponent ==
    l3_pc = "done" => \A file \in CatalogFiles : Cardinality(LayersOfFile(file)) <= 1

\* The same for the catalogs built by the scan of the file system alone, and
\* for those built from the violations alone.
C19_OneLayerPerComponentScanned ==
    (l3_pc = "done" /\ ~fell_back) =>
        \A file \in CatalogFiles : Cardinality(LayersOfFile(file)) <= 1
C19_OneLayerPerComponentFromViolations ==
    (l3_pc = "done" /\ fell_back /\ config.kind = "missing") =>
        \A file \in CatalogFiles : Cardinality(LayersOfFile(file)) <= 1

(***************************************************************************)
(* The directive of a normalized block                                     *)
(***************************************************************************)

RECURSIVE Words(_)
\* s.split(): the runs of s between its white space
Words(s) ==
    LET a == RunEnd(s, 1, Whitespace)
        b == CHOOSE j \in a..(Len(s) + 1) :
                /\ j = Len(s) + 1 \/ CharAt(s, j) \in Whitespace
                /\ \A k \in a..(j - 1) : CharAt(s, k) \notin Whitespace
    IN  IF a > Len(s) THEN <<>>
        ELSE <<SubSeq(s, a, b - 1)>> \o Words(SubSeq(s, b, Len(s)))

\* the top-level directive of a block: the words of its first line that is
\* not blank
DirectiveOf(text) ==
    LET lines == SelectSeq(SplitLines(text), LAMBDA line : Words(line) # <<>>)
    IN  IF lines = <<>> THEN <<>> ELSE Words(lines[1])

\* C20: for every direction token D of TB, TD, BT, LR, RL, a block whose
\* top-level directive is "graph D" is normalized to a block whose top-level
\* directive is "flowchart D".
C20_GraphBecomesFlowchart ==
    \A direction \in DirectionTokens :
        (fixed.k = "str" /\ DirectiveOf(fence_block) = <<"graph", direction>>) =>
            DirectiveOf(fixed.v) = <<"flowchart", direction>>

\* What normalization does: the directive is rewritten for the four
\* directions of the pattern, TB, LR, RL and BT ...
C20_ListedDirectionsRewritten ==
    \A direction \in RewrittenDirections :
        (fixed.k = "str" /\ DirectiveOf(fence_block) = <<"graph", direction>>) =>
            DirectiveOf(fixed.v) = <<"flowchart", direction>>

\* ... and "graph TD" is left as it is.
C20_TopDownLeftAlone ==
    (fixed.k = "str" /\ DirectiveOf(fence_block) = <<"graph", "TD">>) =>
        DirectiveOf(fixed.v) = <<"graph", "TD">>

\* a block with the directive "graph LR" has been normalized
C20_Normalized ==
    fixed.k = "str" /\ DirectiveOf(fence_block) = <<"graph", "LR">>
        /\ DirectiveOf(fixed.v) = <<"flowchart", "LR">>

(***************************************************************************)
(* The totals of a CostTracker and its call log                            *)
(***************************************************************************)

RECURSIVE SumInts(_, _)
\* the sum of the whole-number field over the entries
SumInts(entries, field) ==
    IF Len(entries) = 0 THEN 0
    ELSE SumInts(SubSeq(entries, 1, Len(entries) - 1), field) + entries[Len(entries)][field]

RECURSIVE SumFloats(_, _)
\* sum(entry[field] for entry in entries) on float, in the order of the log
SumFloats(entries, field) ==
    IF Len(entries) = 0 THEN FZero
    ELSE FAdd(SumFloats(SubSeq(entries, 1, Len(entries) - 1), field),
              entries[Len(entries)][field])

\* the totals of the summary agree with the entries
TotalsAgree(entries) ==
    LET s == get_summary(tracker)
    IN  /\ s.total_input_tokens = SumInts(entries, "input_tokens")
        /\ s.total_output_tokens = SumInts(entries, "output_tokens")
        /\ s.total_cost = SumFloats(entries, "cost")
        /\ s.total_time = SumFloats(entries, "duration")
        /\ s.total_tokens = s.total_input_tokens + s.total_output_tokens
        /\ s.num_calls = invoked

\* C21: after any sequence of record_call invocations the totals of the
\* tracker are the sums of the fields of its call log, total_tokens is the
\* sum of the input and the output tokens, and num_calls is the number of
\* invocations.
C21_TotalsAgreeWithLog == TotalsAgree(tracker.calls)

\* The same when no call was given a meta with a key of the entry itself.
C21_TotalsAgreeWithLogNoKeyOfEntry ==
    (\A i \in 1..Len(tracker.calls) : "cost" \notin tracker.calls[i].keys) =>
        TotalsAgree(tracker.calls)

(***************************************************************************)
(* The registry after a reset                                              *)
(***************************************************************************)

RECURSIVE FreshIds(_, _)
\* the ids a registry whose _used is u returns for the names, in turn
FreshIds(u, names) ==
    IF Len(names) = 0 THEN <<>>
    ELSE LET sid == UidOf(u, Head(names))
         IN  <<sid>> \o FreshIds(u \cup {sid}, Tail(names))

\* the names and the ids of the calls of uid since the last reset
NamesCalled == [i \in 1..Len(calls) |-> calls[i].name]
IdsReturned == [i \in 1..Len(calls) |-> calls[i].id]

\* C22: the calls of uid made after a reset return the ids the same calls
\* return on a newly constructed registry, whatever was registered before
\* the reset.
C22_ResetIsFresh == IdsReturned = FreshIds({}, NamesCalled)

\* C22 witness: after a reset that cleared the plain id and the suffixed id of
\* a name, two calls for that name gave the plain id and the suffixed one again
C22_Witness ==
    /\ dropped = {"a___b", "a___b_73f3f0"}
    /\ IdsReturned = <<"a___b", "a___b_73f3f0">>

(***************************************************************************)
(* The catalog built from the violations                                   *)
(***************************************************************************)

\* the from_layer of a message of the report by the rule of the report
\* normalizer, "Unknown" when the message holds no layer pair
FromLayerOf(e) ==
    OrUnknown(LayersFromMessage([message |-> e.message, dep_from |-> PyNone,
                                 dep_to |-> PyNone])[1])

\* the occurrences the catalog holds under the layer and the component
OccurrencesUnder(layer, component) ==
    IF DictHas(layer_components, layer) /\ DictHas(layer_components.val[layer], component)
    THEN layer_components.val[layer].val[component]
    ELSE <<>>

\* the places of the catalog: a layer, a component under it, and an index of
\* the occurrence list of the component
Places ==
    UNION {UNION {{<<layer, component, k>> :
                        k \in 1..Len(layer_components.val[layer].val[component])} :
                    component \in DOMAIN layer_components.val[layer].val} :
            layer \in DOMAIN layer_components.val}

\* the catalog was built from the violations alone
BuiltFromViolations == l3_pc = "done" /\ config.kind # "ok"

\* whether the list holds the occurrence of the message of the report
HoldsOccurrenceOf(occurrences, e) ==
    \E k \in 1..Len(occurrences) :
        occurrences[k].file = e.file /\ occurrences[k].message = e.message

\* every component of the catalog has an occurrence
EveryComponentOccurs ==
    \A layer \in DOMAIN layer_components.val :
        \A component \in DOMAIN layer_components.val[layer].val :
            Len(layer_components.val[layer].val[component]) >= 1

\* C23: in the catalog built from the violations every message of the report
\* has exactly one occurrence, under the from_layer of the message ("Unknown"
\* when the message holds no layer pair) and under the stem of its file; so
\* every component of the catalog has an occurrence.
C23_OccurrencePerMessage ==
    BuiltFromViolations =>
        /\ Cardinality(Places) = Len(report.entries)
        /\ \A i \in 1..Len(report.entries) :
              HoldsOccurrenceOf(OccurrencesUnder(FromLayerOf(report.entries[i]),
                                                 Stem(report.entries[i].file)),
                                report.entries[i])
        /\ EveryComponentOccurs

\* a message the builder files: one that holds " on " inside its last
\* parenthesis
Filed(e) ==
    /\ Contains(e.message.v, " on ")
    /\ Contains(e.message.v, "(")
    /\ Contains(LayerPart(e.message.v), " on ")

\* What the builder does: it files the messages that hold a layer pair, and
\* no other, each once, under the from_layer of the pair and under what
\* _extract_component_name makes of the file; every component it files has
\* an occurrence.
C23_OccurrencePerFiledMessage ==
    BuiltFromViolations =>
        /\ Cardinality(Places) = Len(SelectSeq(report.entries, Filed))
        /\ \A i \in 1..Len(report.entries) :
              Filed(report.entries[i]) =>
                  HoldsOccurrenceOf(OccurrencesUnder(FromLayerOf(report.entries[i]),
                                        extract_component_name(report.entries[i].file)),
                                    report.entries[i])
        /\ EveryComponentOccurs

\* The component under which the messages are filed, alone: the stem of the
\* file.
C23_FiledUnderStem ==
    BuiltFromViolations =>
        \A i \in 1..Len(report.entries) :
            Filed(report.entries[i]) =>
                HoldsOccurrenceOf(OccurrencesUnder(FromLayerOf(report.entries[i]),
                                                   Stem(report.entries[i].file)),
                                  report.entries[i])

(***************************************************************************)
(* The layer pairs of the component edges and of the report normalizer     *)
(***************************************************************************)

\* the pair the report normalizer records for a message of the report
NormalizerPair(e) ==
    LET pair == LayersFromMessage([message |-> e.message, dep_from |-> PyNone,
                                   dep_to |-> PyNone])
    IN  <<OrUnknown(pair[1]), OrUnknown(pair[2])>>

\* every message of the report is a text
AllMessagesText == \A i \in 1..Len(report.entries) : report.entries[i].message.k = "str"

\* the edge of every qualifying message carries the pair of the normalizer
PairsAsNormalizer ==
    \A k \in 1..Len(QualifyingEntries) :
        /\ k <= Len(component_dependencies)
        /\ <<component_dependencies[k].from_layer, component_dependencies[k].to_layer>>
                = NormalizerPair(QualifyingEntries[k])

\* C24: for a report of text messages the builder ends without failing, and
\* the edge of every message that contains "depend on" and a parenthesized
\* layer pair carries the (from_layer, to_layer) the report normalizer
\* records for the message, also when the parenthesis holds " on " twice.
C24_PairsAsNormalizer ==
    (l3_pc \in {"done", "raised"} /\ AllMessagesText) =>
        (l3_pc = "done" /\ PairsAsNormalizer)

\* The same for the builders that end without failing.
C24_PairsAsNormalizerWhenBuilt ==
    (l3_pc = "done" /\ AllMessagesText) => PairsAsNormalizer

(***************************************************************************)
(* The node identifiers of a diagram                                       *)
(***************************************************************************)

\* a line of a diagram without its indentation and without "subgraph "
Declaration(line) ==
    LET text == Strip(line)
    IN  IF StartsAt(text, "subgraph ", 1) THEN SubSeq(text, 10, Len(text)) ELSE text

\* whether a line declares a node: id[label]
Declares(line) ==
    LET text == Declaration(line)
    IN  Contains(text, "[") /\ Len(text) > 0 /\ CharAt(text, Len(text)) = "]"

\* the (identifier, label) pairs of the nodes a diagram declares
NodesOf(text) ==
    {<<SubSeq(Declaration(line), 1, Find(Declaration(line), "[", 1) - 1),
       SubSeq(Declaration(line), Find(Declaration(line), "[", 1) + 1,
              Len(Declaration(line)) - 1)>> :
        line \in {l \in {SplitLines(text)[i] : i \in 1..Len(SplitLines(text))} : Declares(l)}}

\* no two nodes of the diagram with different labels have one identifier
CollisionFree(text) ==
    \A a, b \in NodesOf(text) : a[2] # b[2] => a[1] # b[1]

\* C25: in every diagram the renderers emit, two distinct component or layer
\* names are never given the same node identifier, also when they differ only
\* in characters that are replaced by "_".
C25_NodeIdsCollisionFree ==
    /\ \A i \in 1..Len(diagrams) : CollisionFree(diagrams[i])
    /\ \A i \in 1..Len(overviews) : CollisionFree(overviews[i])

\* The part of C25 about the layer component diagram, and the part about the
\* layered overview.
C25_DiagramCollisionFree == \A i \in 1..Len(diagrams) : CollisionFree(diagrams[i])
C25_OverviewCollisionFree == \A i \in 1..Len(overviews) : CollisionFree(overviews[i])

(***************************************************************************)
(* read_all_metrics: the grand totals and the stages                       *)
(***************************************************************************)

RECURSIVE BreakdownTokens(_, _)
\* the tokens of the first k stages of a breakdown
BreakdownTokens(bd, k) ==
    IF k = 0 THEN 0 ELSE BreakdownTokens(bd, k - 1) + bd.val[bd.keys[k]].tokens

RECURSIVE BreakdownCost(_, _)
\* the float sum of the costs of the first k stages of a breakdown
BreakdownCost(bd, k) ==
    IF k = 0 THEN FZero ELSE FAdd(BreakdownCost(bd, k - 1), bd.val[bd.keys[k]].cost)

RECURSIVE BreakdownTime(_, _)
\* the float sum of the times of the first k stages of a breakdown
BreakdownTime(bd, k) ==
    IF k = 0 THEN FZero ELSE FAdd(BreakdownTime(bd, k - 1), bd.val[bd.keys[k]].time)

\* the figures a document gives to the grand totals, none when it is skipped
TotalsGiven(obj) ==
    IF DocTruthy(obj) /\ ParsedOf(obj).k # "none" THEN ParsedOf(obj).totals ELSE ZeroFigures

RECURSIVE TokensGiven(_, _)
\* the tokens the first k documents give to the grand totals
TokensGiven(ds, k) ==
    IF k = 0 THEN 0
    ELSE TokensGiven(ds, k - 1) + TotalsGiven(ds[k]).tokens_in + TotalsGiven(ds[k]).tokens_out

RECURSIVE CostGiven(_, _)
\* the float sum, in the order of the files, of the costs the first k
\* documents give to the grand totals
CostGiven(ds, k) ==
    IF k = 0 THEN FZero ELSE FAdd(CostGiven(ds, k - 1), TotalsGiven(ds[k]).cost)

RECURSIVE TimeGiven(_, _)
\* the same for the times
TimeGiven(ds, k) ==
    IF k = 0 THEN FZero ELSE FAdd(TimeGiven(ds, k - 1), TotalsGiven(ds[k]).time)

\* no document was read by the canonical extraction
NoneCanonical == \A i \in 1..Len(handled) : handled[i] # "canonical"

\* C26 (as claimed): in the summary of read_all_metrics each grand total is
\* the sum of the values of the stages: total_tokens of the tokens of the
\* breakdown, and likewise total_cost and total_time.
C26_TotalsAreStageSums ==
    m_pc = "done" =>
        LET bd == summary.breakdown
        IN  /\ summary.total_tokens = BreakdownTokens(bd, Len(bd.keys))
            /\ summary.total_cost = BreakdownCost(bd, Len(bd.keys))
            /\ summary.total_time = BreakdownTime(bd, Len(bd.keys))

\* The part of C26 about the tokens.
C26_TokensAreStageSums ==
    m_pc = "done" =>
        summary.total_tokens = BreakdownTokens(summary.breakdown, Len(summary.breakdown.keys))

\* C26 (amended): each grand total is the sum of what the totals of the
\* documents give, tokens exactly and cost and time as float sums in the order
\* of the files; total_tokens is the sum of the tokens of the stages when no
\* document is a canonical one, whose totals are read apart from its levels.
C26_TotalsAreSumsOfTotals ==
    m_pc = "done" =>
        /\ summary.total_tokens = TokensGiven(docs, Len(docs))
        /\ summary.total_cost = CostGiven(docs, Len(docs))
        /\ summary.total_time = TimeGiven(docs, Len(docs))
        /\ NoneCanonical =>
              summary.total_tokens
                  = BreakdownTokens(summary.breakdown, Len(summary.breakdown.keys))

(***************************************************************************)
(* normalize_mermaid_block: one id for a raw name                          *)
(***************************************************************************)

\* the lines that are normalized, and the lines written for them
LinesRead == SplitLines(SubDirective(fence_block, 1))
LinesWritten == SplitLines(fixed.v)

\* the position of the head of the first arrow of a line: the first > that
\* follows a character of an arrow, 0 when the line has no arrow
ArrowHead(line) ==
    LET heads == {p \in 2..Len(line) : CharAt(line, p) = ">" /\ CharAt(line, p - 1) \in ArrowChars}
    IN  IF heads = {} THEN 0 ELSE CHOOSE p \in heads : \A q \in heads : p <= q

RECURSIVE DropArrowTail(_)
\* an identifier without the characters of an arrow that is written onto it
DropArrowTail(s) ==
    IF s # "" /\ CharAt(s, Len(s)) \in ArrowChars THEN DropArrowTail(SubSeq(s, 1, Len(s) - 1))
    ELSE s

\* the identifier a line starts with, as Mermaid reads it: the run of
\* identifier characters, less the arrow when the arrow follows without a
\* blank (A-->B starts with A)
LineHeadOf(line) ==
    LET a == RunEnd(line, 1, Whitespace)
        b == RunEnd(line, a, RawIdChars)
    IN  IF IsAt(line, b, ">") THEN DropArrowTail(SubSeq(line, a, b - 1))
        ELSE SubSeq(line, a, b - 1)

\* the identifier the first arrow of a line points to, past a label between
\* bars; "" when the line has no arrow
EdgeTargetOf(line) ==
    LET p == ArrowHead(line)
        a == RunEnd(line, p + 1, Whitespace)
        bars == {q \in (a + 1)..Len(line) : CharAt(line, q) = "|"}
        b == IF IsAt(line, a, "|") /\ bars # {}
             THEN RunEnd(line, (CHOOSE q \in bars : \A o \in bars : q <= o) + 1, Whitespace)
             ELSE a
    IN  IF p = 0 THEN "" ELSE SubSeq(line, b, RunEnd(line, b, RawIdChars) - 1)

\* the places of a block where an identifier stands: the start of a line that
\* declares a node or holds an edge, and the target of an edge
IdPlaces ==
    {<<i, "head">> : i \in {j \in 1..Len(LinesRead) :
                                NodeMatch(LinesRead[j]).ok \/ ArrowHead(LinesRead[j]) # 0}}
    \cup {<<i, "target">> : i \in {j \in 1..Len(LinesRead) : EdgeTargetOf(LinesRead[j]) # ""}}

\* the identifier at a place of the block that is read, and the one written
\* at the same place
RawAt(pl) ==
    IF pl[2] = "head" THEN LineHeadOf(LinesRead[pl[1]]) ELSE EdgeTargetOf(LinesRead[pl[1]])
WrittenAt(pl) ==
    IF pl[2] = "head" THEN LineHeadOf(LinesWritten[pl[1]]) ELSE EdgeTargetOf(LinesWritten[pl[1]])

\* a safe id: letters, digits and underscores, the first no digit
IsSafeId(s) ==
    /\ s # ""
    /\ \A i \in 1..Len(s) : CharAt(s, i) \in SafeChars
    /\ CharAt(s, 1) \notin Digits

\* C27: in one normalization of a block every occurrence of a raw identifier,
\* at the start of a node declaration or as either endpoint of an edge, is
\* written as one and the same safe id.
C27_OneIdPerRawName ==
    fixed # PyNone =>
        /\ Len(LinesWritten) = Len(LinesRead)
        /\ \A pl \in IdPlaces : IsSafeId(WrittenAt(pl))
        /\ \A pl, other \in IdPlaces :
              RawAt(pl) = RawAt(other) => WrittenAt(pl) = WrittenAt(other)

\* a line whose identifiers unique_id is given and whose text is rewritten
\* with them: an edge between two bare identifiers with blanks about the
\* arrow, or a declaration with nothing between identifier and bracket and no
\* arrow after it
PlainLine(line) ==
    \/ /\ EdgeMatch(line).ok
       /\ EdgeMatch(line).src_raw = LineHeadOf(line)
       /\ LineHeadOf(line) = SubSeq(line, RunEnd(line, 1, Whitespace),
                                RunEnd(line, RunEnd(line, 1, Whitespace), RawIdChars) - 1)
       /\ EdgeMatch(line).dst_raw = EdgeTargetOf(line)
    \/ /\ NodeMatch(line).ok
       /\ IsAt(line, RunEnd(line, RunEnd(line, 1, Whitespace), RawIdChars), NodeMatch(line).bracket)
       /\ ArrowHead(line) = 0
    \/ ~NodeMatch(line).ok /\ ArrowHead(line) = 0

\* C27 holds of the blocks of plain lines.
C27_OneIdPerRawNameOnPlainLines ==
    (fixed # PyNone /\ \A i \in 1..Len(LinesRead) : PlainLine(LinesRead[i])) =>
        /\ Len(LinesWritten) = Len(LinesRead)
        /\ \A pl \in IdPlaces : IsSafeId(WrittenAt(pl))
        /\ \A pl, other \in IdPlaces :
              RawAt(pl) = RawAt(other) => WrittenAt(pl) = WrittenAt(other)

(***************************************************************************)
(* the builder after a scan that failed                                    *)
(***************************************************************************)

\* whether _parse_components files a message: the text holds " on " and a
\* parenthesis with a layer pair in it
FiledByParse(e) ==
    /\ e.message.k # "none"
    /\ Contains(e.message.v, " on ") /\ Contains(e.message.v, "(")
    /\ Contains(LayerPart(e.message.v), " on ")
    /\ ~UnpackFails(LayerPart(e.message.v))

RECURSIVE CatalogAlone(_, _)
\* the catalog _parse_components makes of the first k messages of a report,
\* from an empty catalog
CatalogAlone(es, k) ==
    IF k = 0 THEN EmptyDict
    ELSE IF FiledByParse(es[k])
         THEN CatalogAppend(CatalogAlone(es, k - 1),
                            Strip(Split(LayerPart(es[k].message.v), " on ")[1]),
                            extract_component_name(es[k].file),
                            [file |-> es[k].file, message |-> es[k].message, line |-> es[k].line])
         ELSE CatalogAlone(es, k - 1)

RECURSIVE EdgesAlone(_, _)
\* the edges _parse_components makes of the first k messages of a report,
\* from an empty list
EdgesAlone(es, k) ==
    IF k = 0 THEN <<>>
    ELSE IF FiledByParse(es[k]) /\ Contains(es[k].message.v, "depend on")
         THEN Append(EdgesAlone(es, k - 1),
                     EdgeOf(extract_component_name(es[k].file), es[k].message.v))
         ELSE EdgesAlone(es, k - 1)

\* the scan began, failed, and the builder fell back and returned
FellBackFromScan == l3_pc = "done" /\ fell_back /\ config.kind = "ok"

\* C28: when the scan fails part-way and the builder falls back, the catalog
\* and the edges are those the violation-derived strategy alone makes of the
\* report: nothing of the scan remains and no edge stands twice.
C28_FallbackAsAlone ==
    FellBackFromScan =>
        /\ layer_components = CatalogAlone(report.entries, Len(report.entries))
        /\ component_dependencies = EdgesAlone(report.entries, Len(report.entries))

\* The part of C28 about the edges.
C28_FallbackEdgesAsAlone ==
    FellBackFromScan =>
        component_dependencies = EdgesAlone(report.entries, Len(report.entries))

\* C28 holds when the builder falls back before it scans: deptrac.yaml is
\* missing, or it is not a mapping.
C28_FallbackAsAloneWithoutScan ==
    (l3_pc = "done" /\ fell_back /\ config.kind # "ok") =>
        /\ layer_components = CatalogAlone(report.entries, Len(report.entries))
        /\ component_dependencies = EdgesAlone(report.entries, Len(report.entries))

(***************************************************************************)
(* LLMClient.call: a call that fails                                       *)
(***************************************************************************)

\* a step of call on a request that fails: no answer in time, a request that
\* fails, or a body of a form the try block raises on
FailedCallStep == returned' # returned /\ Raised(returned'.resp) # ""

\* C29: a call that fails gives None and leaves the tracker as it was, no
\* entry more in its log and no total changed, among calls that succeed.
C29_FailedCallGivesNoneAndKeepsTracker ==
    [][FailedCallStep => (returned'.outcome = "None" /\ tracker' = tracker)]_vars

\* The part of C29 about the tracker.
C29_FailedCallKeepsTracker ==
    [][FailedCallStep => tracker' = tracker]_vars

\* C29 holds of the failures call catches: no answer in time, a request that
\* fails, an empty list of choices, a count that is no number.
C29_CaughtFailureGivesNone ==
    [][(FailedCallStep /\ Raised(returned'.resp) \in Caught)
            => (returned'.outcome = "None" /\ tracker' = tracker)]_vars

\* the last call gave None
C29_GaveNone == returned.outcome = "None"

\* an exception left the last call, after calls were recorded
C29_ExceptionLeftCall == returned.outcome = "raised" /\ Len(tracker.calls) > 0

(***************************************************************************)
(* generate_all_levels: the level of a result                              *)
(***************************************************************************)

\* C30: generate_all_levels returns one result for each task it started, and
\* the level of each result is the level of the task that produced it, also
\* of a task that ended with an exception, whatever the list of levels.
C30_ResultNamesLevelOfTask ==
    gen_pc = "done" =>
        /\ Len(processed_results) = Len(tasks)
        /\ \A i \in 1..Len(tasks) : processed_results[i].level = tasks[i]

\* The part of C30 about the number of results.
C30_OneResultPerTask ==
    gen_pc = "done" => Len(processed_results) = Len(tasks)

\* the list of levels holds levels 1 to 4 only, in rising order
RisingGeneratorLevels ==
    LET l == LevelsOf(levels_arg)
    IN  /\ \A i \in 1..Len(l) : InList(l[i], GeneratorLevels)
        /\ \A i, j \in 1..Len(l) : i < j => l[i] < l[j]

\* C30 holds of the lists that hold levels 1 to 4 in rising order, and of the
\* results of the tasks that returned.
C30_ResultNamesLevelWhenRising ==
    gen_pc = "done" =>
        \A i \in 1..Len(tasks) :
            (RisingGeneratorLevels \/ gathered[i].k = "result")
                => processed_results[i].level = tasks[i]
====
